---- MODULE Spec2Model ----
(***************************************************************************)
(* Digital-twin plant simulator: the physics models (ReactorModel,         *)
(* TurbineModel, GridModel), the controllers (ReactorController,           *)
(* PIDController), MetricsEngine.calculate, and the episode driver         *)
(* (ScenarioExecutor, run_single_sim_and_extract_detailed_metrics), as     *)
(* state machines.                                                         *)
(*                                                                         *)
(* Python floats are modelled as fixed-point integers: the float 1.0 is    *)
(* ONE, a product or quotient is rounded toward zero to that unit, a       *)
(* result whose magnitude exceeds FMAX overflows to an infinity, and       *)
(* inf - inf, 0 * inf and inf / inf give NaN, as IEEE-754 arithmetic does. *)
(***************************************************************************)
EXTENDS Integers, Sequences, FiniteSets, TLC

VARIABLES focus, reactor, turbine, grid, rc, pid, twin, last, episode, nops, ex

vars == <<focus, reactor, turbine, grid, rc, pid, twin, last, episode, nops, ex>>

(***************************************************************************)
(* Bounds of the model.                                                    *)
(***************************************************************************)
\* the fixed-point unit: the float 1.0
ONE == 100
\* the largest finite magnitude of a float (sys.float_info.max in the code)
FMAX == 1000000
\* operations applied to one object in one behaviour
MaxOps == 4

(***************************************************************************)
(* Float arithmetic.                                                       *)
(***************************************************************************)
PInf == FMAX + 1
NInf == -PInf
NaN == FMAX + 2

Abs(x) == IF x < 0 THEN -x ELSE x
Sgn(x) == IF x > 0 THEN 1 ELSE IF x < 0 THEN -1 ELSE 0
IsInf(x) == x = PInf \/ x = NInf
Norm(x) == IF x > FMAX THEN PInf ELSE IF x < -FMAX THEN NInf ELSE x
SInf(s) == IF s > 0 THEN PInf ELSE NInf

FNeg(a) == IF a = NaN THEN NaN ELSE -a

FAdd(a, b) ==
    IF a = NaN \/ b = NaN THEN NaN
    ELSE IF a = PInf THEN (IF b = NInf THEN NaN ELSE PInf)
    ELSE IF a = NInf THEN (IF b = PInf THEN NaN ELSE NInf)
    ELSE IF IsInf(b) THEN b
    ELSE Norm(a + b)

FSub(a, b) == FAdd(a, FNeg(b))

FMul(a, b) ==
    IF a = NaN \/ b = NaN THEN NaN
    ELSE IF IsInf(a) \/ IsInf(b)
         THEN (IF a = 0 \/ b = 0 THEN NaN ELSE SInf(Sgn(a) * Sgn(b)))
    ELSE IF a = 0 \/ b = 0 THEN 0
    ELSE IF Abs(a) > ((FMAX + 1) * ONE) \div Abs(b) THEN SInf(Sgn(a) * Sgn(b))
    ELSE Norm(Sgn(a) * Sgn(b) * ((Abs(a) * Abs(b)) \div ONE))

\* a / b for b # 0 (every divisor of the code is a positive configuration
\* value or a positive time step)
FDiv(a, b) ==
    IF a = NaN \/ b = NaN THEN NaN
    ELSE IF IsInf(a) THEN (IF IsInf(b) THEN NaN ELSE SInf(Sgn(a) * Sgn(b)))
    ELSE IF IsInf(b) THEN 0
    ELSE IF b = 0 THEN NaN
    ELSE Norm(Sgn(a) * Sgn(b) * ((Abs(a) * ONE) \div Abs(b)))

\* k * x for an integer gain k (a constant given in the unit of the result)
FScale(k, x) ==
    IF x = NaN THEN NaN
    ELSE IF IsInf(x) THEN (IF k = 0 THEN NaN ELSE SInf(k * Sgn(x)))
    ELSE Norm(k * x)

\* comparisons: every comparison with NaN is false
FLT(a, b) == a # NaN /\ b # NaN /\ a < b
FLE(a, b) == a # NaN /\ b # NaN /\ a <= b
FGT(a, b) == FLT(b, a)
FGE(a, b) == FLE(b, a)

\* numpy.clip: minimum(maximum(x, lo), hi); NaN propagates
np_clip(x, lo, hi) ==
    IF x = NaN THEN NaN
    ELSE IF x < lo THEN lo
    ELSE IF x > hi THEN hi
    ELSE x

\* Python's max(0.0, x): x only when x > 0.0, so 0.0 for NaN
max0(x) == IF FGT(x, 0) THEN x ELSE 0

\* dict.get(key, default)
Get(d, k, default) == IF k \in DOMAIN d THEN d[k] ELSE default

(***************************************************************************)
(* PIDController (controllers/pid_controller.py)                           *)
(***************************************************************************)
MEASUREMENT_OBS_INDEX == 4

\* a Python value is [type |-> the name of its type, value |-> its value]
isinstance(v, types) == v.type \in types

\* BaseController.__init__: a number dt must be positive (dt <= 0 raises)
BaseController_init_raises(config, dt) == FLE(dt, 0)

\* PIDController.__init__: TRUE when construction raises
PIDController_init_raises(config, dt) ==
    \/ BaseController_init_raises(config, dt)
    \/ LET output_limits == Get(config, "output_limits", <<0, ONE>>)
       IN  output_limits[1] >= output_limits[2]

\* PIDController.__init__: the object constructed
PIDController_init(config, dt) ==
    LET output_limits == Get(config, "output_limits", <<0, ONE>>)
        deriv_filter_tau == Get(config, "deriv_filter_tau", (5 * ONE) \div 100)
    IN  [config |-> config,
         kp |-> Get(config, "kp", (20 * ONE) \div 100),
         ki |-> Get(config, "ki", (4 * ONE) \div 100),
         kd |-> Get(config, "kd", (5 * ONE) \div 100),
         setpoint |-> Get(config, "setpoint", 1800 * ONE),
         output_min |-> output_limits[1],
         output_max |-> output_limits[2],
         deriv_filter_tau |-> deriv_filter_tau,
         use_filter |-> IF FGT(dt, 0)
                        THEN FGT(deriv_filter_tau, FMul(dt, (3 * ONE) \div 2))
                        ELSE FALSE,
         dt |-> dt,
         _integral |-> 0,
         _previous_error |-> 0,
         _derivative_state |-> 0]

\* PIDController(config, dt) with the checks BaseController.__init__ makes
\* of the types of its arguments: [raised |-> the exception or "none",
\* obj |-> the controller constructed]
PIDController_new(config, dt) ==
    IF ~ isinstance(config, {"dict"})
    THEN [raised |-> "TypeError", obj |-> <<>>]
    ELSE IF \/ ~ isinstance(dt, {"float", "int"})
            \/ BaseController_init_raises(config.value, dt.value)
    THEN [raised |-> "ValueError", obj |-> <<>>]
    ELSE IF PIDController_init_raises(config.value, dt.value)
    THEN [raised |-> "ValueError", obj |-> <<>>]
    ELSE [raised |-> "none", obj |-> PIDController_init(config.value, dt.value)]

\* the integral update of PIDController.step (conditional integration)
PID_integrate(s, error, output_before_i) ==
    LET is_at_max_and_saturating ==
            FGE(output_before_i, s.output_max) /\ FGT(error, 0)
        is_at_min_and_saturating ==
            FLE(output_before_i, s.output_min) /\ FLT(error, 0)
    IN  IF ~ is_at_max_and_saturating /\ ~ is_at_min_and_saturating
        THEN FAdd(s._integral, FMul(error, s.dt))
        ELSE s._integral

\* the final clamp of PIDController.step
PID_clamp(s, output_unclamped) ==
    np_clip(output_unclamped, s.output_min, s.output_max)

\* PIDController.step: [obj |-> the controller after the call, ret |-> the
\* value returned, unclamped |-> the output before the clamp]
PIDController_step(s, observation) ==
    IF FLE(s.dt, 0)
    THEN LET mid == FMul(ONE \div 2, FAdd(s.output_max, s.output_min))
         IN  [obj |-> s, ret |-> mid, unclamped |-> mid]
    ELSE
    LET measurement ==
            IF Len(observation) > MEASUREMENT_OBS_INDEX
            THEN observation[MEASUREMENT_OBS_INDEX + 1]
            ELSE s.setpoint
        error == FSub(s.setpoint, measurement)
        p_term == FMul(s.kp, error)
        raw_derivative == FDiv(FSub(error, s._previous_error), s.dt)
        d_deriv_state_dt ==
            FDiv(FSub(raw_derivative, s._derivative_state), s.deriv_filter_tau)
        derivative_state ==
            IF s.use_filter
            THEN FAdd(s._derivative_state, FMul(d_deriv_state_dt, s.dt))
            ELSE s._derivative_state
        effective_derivative ==
            IF s.use_filter THEN derivative_state ELSE raw_derivative
        d_term == FMul(s.kd, effective_derivative)
        output_before_i == FAdd(p_term, d_term)
        integral == PID_integrate(s, error, output_before_i)
        i_term == FMul(s.ki, integral)
        output_unclamped == FAdd(FAdd(p_term, i_term), d_term)
        output_final == PID_clamp(s, output_unclamped)
    IN  [obj |-> [s EXCEPT !._integral = integral,
                           !._previous_error = error,
                           !._derivative_state = derivative_state],
         ret |-> output_final,
         unclamped |-> output_unclamped]

\* mutant: a reset that keeps the derivative filter's state
PIDController_reset_keeps_filter(s) ==
    [s EXCEPT !._integral = 0, !._previous_error = 0]

\* PIDController.reset
PIDController_reset(s) ==
    [s EXCEPT !._integral = 0, !._previous_error = 0, !._derivative_state = 0]

\* PIDController.update_parameters
PIDController_update_parameters(s, new_params) ==
    [s EXCEPT !.kp = Get(new_params, "kp", s.kp),
              !.ki = Get(new_params, "ki", s.ki),
              !.kd = Get(new_params, "kd", s.kd)]

\* PIDController.get_parameters
PIDController_get_parameters(s) ==
    [kp |-> s.kp, ki |-> s.ki, kd |-> s.kd, setpoint |-> s.setpoint]

(***************************************************************************)
(* ReactorController (environment/reactor_controller.py)                   *)
(* Temperatures and the integral are in the unit ONE; a reactivity is in   *)
(* the unit 0.00001 / ONE, in which the gains are the integers RC_kp and   *)
(* RC_ki and the reactivity 0.00001 is ONE.                                *)
(***************************************************************************)
\* kp = 0.00008
RC_kp == 8
\* ki = 0.00002
RC_ki == 2
\* setpoint = 306.5
RC_setpoint == (613 * ONE) \div 2
\* the integral clamp, 5.0
RC_integral_limit == 5 * ONE
\* _reactivity_limits = (-0.005, 0.005)
RC_reactivity_limit == 500 * ONE

\* ReactorController.__init__
ReactorController_init(dt) ==
    [dt |-> dt, setpoint |-> RC_setpoint, _integral |-> 0]

\* ReactorController.reset
ReactorController_reset(s, setpoint) ==
    [s EXCEPT !._integral = 0, !.setpoint = setpoint]

\* mutant: the anti-windup clamp left out
RC_clamp_integral_unclamped(x) == x

\* the integral clamp of ReactorController.step
RC_clamp_integral(x) == np_clip(x, -RC_integral_limit, RC_integral_limit)

\* the output clamp of ReactorController.step
RC_clamp_output(x) == np_clip(x, -RC_reactivity_limit, RC_reactivity_limit)

\* ReactorController.step
ReactorController_step(s, current_moderator_temp) ==
    IF FLE(s.dt, 0)
    THEN [obj |-> s, ret |-> 0, unclamped |-> 0]
    ELSE
    LET error == FSub(s.setpoint, current_moderator_temp)
        integral == RC_clamp_integral(FAdd(s._integral, FMul(error, s.dt)))
        reactivity_output == FAdd(FScale(RC_kp, error), FScale(RC_ki, integral))
    IN  [obj |-> [s EXCEPT !._integral = integral],
         ret |-> RC_clamp_output(reactivity_output),
         unclamped |-> reactivity_output]

(***************************************************************************)
(* ReactorModel (models/reactor_model.py)                                  *)
(***************************************************************************)
\* element-wise helpers over the delay-group vectors (numpy arrays)
RECURSIVE np_sum(_)
np_sum(v) == IF v = <<>> THEN 0 ELSE FAdd(np_sum(SubSeq(v, 1, Len(v) - 1)), v[Len(v)])

VecMul(u, v) == [i \in 1..Len(u) |-> FMul(u[i], v[i])]

\* numpy.zeros_like
np_zeros_like(v) == [i \in 1..Len(v) |-> 0]

\* ReactorModel.__init__
ReactorModel_init(params) ==
    [beta_i |-> params.beta_i, lambda_i |-> params.lambda_i,
     Lambda |-> params.Lambda, beta_total |-> params.beta_total,
     alpha_f |-> params.alpha_f, alpha_c |-> params.alpha_c,
     C_f |-> params.C_f, C_c |-> params.C_c, Omega |-> params.Omega,
     P0 |-> params.P0, T_inlet |-> params.T_inlet,
     T_coolant0 |-> params.T_coolant0, T_fuel0 |-> params.T_fuel0,
     power_level |-> 0,
     precursor_concentrations |-> np_zeros_like(params.beta_i),
     T_fuel |-> 0, T_moderator |-> 0]

\* the keys ReactorModel.__init__ reads with params[key]
REACTOR_KEYS ==
    {"beta_i", "lambda_i", "Lambda", "beta_total", "alpha_f", "alpha_c",
     "C_f", "C_c", "Omega", "P0", "T_inlet", "T_coolant0", "T_fuel0"}

\* ReactorModel(params): a missing key is a KeyError, logged and re-raised
ReactorModel_new(params) ==
    IF ~ (REACTOR_KEYS \subseteq DOMAIN params)
    THEN [raised |-> "KeyError", obj |-> <<>>]
    ELSE [raised |-> "none", obj |-> ReactorModel_init(params)]

\* the parameter mapping a ReactorModel was constructed from
ReactorModel_params(s) ==
    [beta_i |-> s.beta_i, lambda_i |-> s.lambda_i, Lambda |-> s.Lambda,
     beta_total |-> s.beta_total, alpha_f |-> s.alpha_f, alpha_c |-> s.alpha_c,
     C_f |-> s.C_f, C_c |-> s.C_c, Omega |-> s.Omega, P0 |-> s.P0,
     T_inlet |-> s.T_inlet, T_coolant0 |-> s.T_coolant0, T_fuel0 |-> s.T_fuel0]

\* ReactorModel.reset
ReactorModel_reset(s, initial_power_fraction) ==
    [s EXCEPT
       !.power_level = initial_power_fraction,
       !.T_fuel = FMul(s.T_fuel0, initial_power_fraction),
       !.T_moderator = FMul(s.T_coolant0, initial_power_fraction),
       !.precursor_concentrations =
           IF FGT(s.Lambda, 0)
           THEN [i \in 1..Len(s.beta_i) |->
                   FMul(FDiv(s.beta_i[i], FMul(s.lambda_i[i], s.Lambda)),
                        initial_power_fraction)]
           ELSE np_zeros_like(s.precursor_concentrations)]

\* mutant: the clamp left out
Reactor_clamp_power_unclamped(p) == p

\* the clamp of ReactorModel.step: power is never negative
Reactor_clamp_power(p) == max0(p)

\* ReactorModel.step: [obj |-> the model after the call, ret |-> the thermal
\* power returned, unclamped |-> the power fraction before the clamp]
ReactorModel_step(s, dt, rod_reactivity) ==
    LET delta_T_f == FSub(s.T_fuel, s.T_fuel0)
        delta_T_c == FSub(s.T_moderator, s.T_coolant0)
        rho_feedback == FAdd(FMul(s.alpha_f, delta_T_f), FMul(s.alpha_c, delta_T_c))
        total_reactivity == FAdd(rho_feedback, rod_reactivity)
        lambda_c_sum == np_sum(VecMul(s.lambda_i, s.precursor_concentrations))
        dp_dt == FAdd(FMul(FDiv(FSub(total_reactivity, s.beta_total), s.Lambda),
                           s.power_level),
                      lambda_c_sum)
        \* self.power_level += dp_dt * dt
        power1 == FAdd(s.power_level, FMul(dp_dt, dt))
        \* the precursor derivative reads the power just updated
        precursors1 ==
            [i \in 1..Len(s.beta_i) |->
               LET dc_dt == FSub(FMul(FDiv(s.beta_i[i], s.Lambda), power1),
                                 FMul(s.lambda_i[i], s.precursor_concentrations[i]))
               IN  FAdd(s.precursor_concentrations[i], FMul(dc_dt, dt))]
        generated_power_mw == FMul(power1, s.P0)
        dtf_dt == FMul(FDiv(ONE, s.C_f),
                       FSub(generated_power_mw,
                            FMul(s.Omega, FSub(s.T_fuel, s.T_moderator))))
        T_fuel1 == FAdd(s.T_fuel, FMul(dtf_dt, dt))
        \* the coolant derivative reads the fuel temperature just updated
        dtc_dt == FMul(FDiv(ONE, s.C_c),
                       FMul(s.Omega, FSub(T_fuel1, s.T_moderator)))
        T_moderator1 == FAdd(s.T_moderator, FMul(dtc_dt, dt))
        power2 == Reactor_clamp_power(power1)
    IN  [obj |-> [s EXCEPT !.power_level = power2,
                           !.precursor_concentrations = precursors1,
                           !.T_fuel = T_fuel1,
                           !.T_moderator = T_moderator1],
         ret |-> FMul(power2, s.P0),
         unclamped |-> power1]

(***************************************************************************)
(* TurbineModel (models/turbine_model.py)                                  *)
(***************************************************************************)
\* TurbineModel.__init__
TurbineModel_init(turbine_params, coupling_params) ==
    [eta_transfer |-> coupling_params.eta_transfer,
     tau_delay |-> Get(coupling_params, "tau_delay", 2 * ONE),
     tau_t |-> turbine_params.tau_t,
     tau_v |-> turbine_params.tau_v,
     omega_nominal_rpm |-> turbine_params.omega_nominal_rpm,
     mechanical_power |-> 0,
     valve_position |-> (8 * ONE) \div 10,
     speed_rpm |-> turbine_params.omega_nominal_rpm]

\* TurbineModel(turbine_params, coupling_params): the keys read with [key]
\* raise KeyError when missing; tau_delay is read with .get
TurbineModel_new(turbine_params, coupling_params) ==
    IF \/ "eta_transfer" \notin DOMAIN coupling_params
       \/ ~ ({"tau_t", "tau_v", "omega_nominal_rpm"} \subseteq
                DOMAIN turbine_params)
    THEN [raised |-> "KeyError", obj |-> <<>>]
    ELSE [raised |-> "none",
          obj |-> TurbineModel_init(turbine_params, coupling_params)]

\* TurbineModel.reset
TurbineModel_reset(s, initial_mech_power, initial_valve_pos) ==
    [s EXCEPT !.mechanical_power = initial_mech_power,
              !.valve_position = initial_valve_pos,
              !.speed_rpm = s.omega_nominal_rpm]

\* mutant: the valve clamp left out
Turbine_clamp_valve_unclamped(v) == v

\* the valve clamp of TurbineModel.step
Turbine_clamp_valve(v) == np_clip(v, 0, ONE)

\* mutant: a step that also moves the speed with the valve
TurbineModel_step_computes_speed(s, dt, thermal_power_mw, valve_command) ==
    LET dv_dt == FMul(FDiv(ONE, s.tau_v), FSub(valve_command, s.valve_position))
        valve_unclamped == FAdd(s.valve_position, FMul(dv_dt, dt))
        valve_position == Turbine_clamp_valve(valve_unclamped)
        effective_steam_power ==
            FMul(valve_position, FMul(s.eta_transfer, thermal_power_mw))
        dp_mech_dt == FMul(FDiv(ONE, s.tau_t),
                           FSub(effective_steam_power, s.mechanical_power))
        mechanical_power == FAdd(s.mechanical_power, FMul(dp_mech_dt, dt))
    IN  [obj |-> [s EXCEPT !.valve_position = valve_position,
                           !.mechanical_power = mechanical_power,
                           !.speed_rpm = FMul(s.omega_nominal_rpm, valve_position)],
         ret |-> mechanical_power,
         unclamped |-> valve_unclamped]

\* TurbineModel.step
TurbineModel_step(s, dt, thermal_power_mw, valve_command) ==
    LET dv_dt == FMul(FDiv(ONE, s.tau_v), FSub(valve_command, s.valve_position))
        valve_unclamped == FAdd(s.valve_position, FMul(dv_dt, dt))
        valve_position == Turbine_clamp_valve(valve_unclamped)
        effective_steam_power ==
            FMul(valve_position, FMul(s.eta_transfer, thermal_power_mw))
        dp_mech_dt == FMul(FDiv(ONE, s.tau_t),
                           FSub(effective_steam_power, s.mechanical_power))
        mechanical_power == FAdd(s.mechanical_power, FMul(dp_mech_dt, dt))
    IN  [obj |-> [s EXCEPT !.valve_position = valve_position,
                           !.mechanical_power = mechanical_power],
         ret |-> mechanical_power,
         unclamped |-> valve_unclamped]

(***************************************************************************)
(* Load profiles (analysis/scenario_definitions.py) and GridModel          *)
(* (models/grid_model.py).  A profile function is the record of the values *)
(* its closure captured.                                                   *)
(***************************************************************************)
\* constant_load, and the fallback lambda GridModel.reset installs
constant_load(load_mw) == [kind |-> "constant", load_mw |-> load_mw]

\* step_load_change
step_load_change(initial, final, step_t) ==
    [kind |-> "step", initial |-> initial, final |-> final, step_t |-> step_t]

\* gradual_load_change; a duration of at most 1e-6 becomes 1e-6, which is
\* below the resolution of the fixed-point unit: it is held as 0
gradual_load_change(initial, final, start_t, duration) ==
    [kind |-> "gradual", initial |-> initial, final |-> final,
     start_t |-> start_t, duration |-> IF FLE(duration, 0) THEN 0 ELSE duration]

\* multi_step_load_profile; steps is a list of <<load, start_time>>
multi_step_load_profile(steps) == [kind |-> "multi_step", steps |-> steps]

\* mutant: the lambda returns its step argument
constant_load_call_step(f, time_s, step) == step

\* the lambda constant_load returns
constant_load_call(f, time_s, step) == f.load_mw

\* mutant: the new load applies only after the step time
step_load_change_call_strict(f, time_s, step) ==
    IF FGT(time_s, f.step_t) THEN f.final ELSE f.initial

\* the lambda step_load_change returns
step_load_change_call(f, time_s, step) ==
    IF FGE(time_s, f.step_t) THEN f.final ELSE f.initial

\* mutant: an entry applies only after its start time
MultiStep_reached_strict(time_s, start_time) == FGT(time_s, start_time)

\* the test of the loop of multi_step_load_profile
MultiStep_reached(time_s, start_time) == FGE(time_s, start_time)

\* the loop of multi_step_load_profile from entry i on: it stops at the
\* first entry whose start time is not reached
RECURSIVE MultiStep_scan(_, _, _, _)
MultiStep_scan(steps, i, time_s, current_load) ==
    IF i > Len(steps) THEN current_load
    ELSE IF MultiStep_reached(time_s, steps[i][2])
    THEN MultiStep_scan(steps, i + 1, time_s, steps[i][1])
    ELSE current_load

\* a call of a profile function
CallProfile(f, time_s, step) ==
    CASE f.kind = "constant" -> constant_load_call(f, time_s, step)
      [] f.kind = "step" -> step_load_change_call(f, time_s, step)
      [] f.kind = "gradual" ->
            IF FLT(time_s, f.start_t) THEN f.initial
            ELSE IF FLT(time_s, FAdd(f.start_t, f.duration))
            THEN FAdd(f.initial,
                      FMul(FSub(f.final, f.initial),
                           FDiv(FSub(time_s, f.start_t), f.duration)))
            ELSE f.final
      [] f.kind = "multi_step" ->
            MultiStep_scan(f.steps, 1, time_s, f.steps[1][1])

\* numpy.pi
np_pi == (314 * ONE) \div 100

\* GridModel.__init__; load_profile_func is None until reset or
\* set_load_profile installs one
GridModel_init(grid_params, sim_params) ==
    [H |-> grid_params.H, D |-> grid_params.D,
     f_nominal |-> grid_params.f_nominal, S_base |-> grid_params.S_base,
     frequency |-> grid_params.f_nominal,
     omega_pu |-> ONE,
     delta |-> 0,
     current_demand |-> 0,
     load_profile_func |-> [kind |-> "None"]]

\* GridModel(grid_params, sim_params)
GridModel_new(grid_params, sim_params) ==
    IF ~ ({"H", "D", "f_nominal", "S_base"} \subseteq DOMAIN grid_params)
    THEN [raised |-> "KeyError", obj |-> <<>>]
    ELSE [raised |-> "none", obj |-> GridModel_init(grid_params, sim_params)]

\* mutant: a reset that keeps the rotor angle
GridModel_reset_keeps_delta(s, initial_load_mw) ==
    [s EXCEPT !.frequency = s.f_nominal,
              !.omega_pu = ONE,
              !.current_demand = initial_load_mw,
              !.load_profile_func = constant_load(initial_load_mw)]

\* GridModel.reset
GridModel_reset(s, initial_load_mw) ==
    [s EXCEPT !.frequency = s.f_nominal,
              !.omega_pu = ONE,
              !.delta = 0,
              !.current_demand = initial_load_mw,
              !.load_profile_func = constant_load(initial_load_mw)]

\* GridModel.set_load_profile
GridModel_set_load_profile(s, load_func) ==
    [s EXCEPT !.load_profile_func = load_func]

\* mutant: damping on the speed, not on its deviation from 1.0
Grid_d_omega_pu_dt_absolute_damping(s, p_m_pu, p_e_pu) ==
    FMul(FDiv(ONE, FMul(2 * ONE, s.H)),
         FSub(FSub(p_m_pu, p_e_pu), FMul(s.D, s.omega_pu)))

\* the swing equation of GridModel.step: d(omega_pu)/dt
Grid_d_omega_pu_dt(s, p_m_pu, p_e_pu) ==
    FMul(FDiv(ONE, FMul(2 * ONE, s.H)),
         FSub(FSub(p_m_pu, p_e_pu), FMul(s.D, FSub(s.omega_pu, ONE))))

\* GridModel.step (called with a profile installed)
GridModel_step(s, dt, mechanical_power_mw, time_s, step_num) ==
    LET current_demand == CallProfile(s.load_profile_func, time_s, step_num)
        p_m_pu == FDiv(mechanical_power_mw, s.S_base)
        p_e_pu == FDiv(current_demand, s.S_base)
        d_omega_pu_dt == Grid_d_omega_pu_dt(s, p_m_pu, p_e_pu)
        omega_pu == FAdd(s.omega_pu, FMul(d_omega_pu_dt, dt))
        frequency == FMul(omega_pu, s.f_nominal)
        d_delta_dt == FMul(FMul(FMul(FSub(omega_pu, ONE), 2 * ONE), np_pi),
                           s.f_nominal)
        delta == FAdd(s.delta, FMul(d_delta_dt, dt))
    IN  [obj |-> [s EXCEPT !.current_demand = current_demand,
                           !.omega_pu = omega_pu,
                           !.frequency = frequency,
                           !.delta = delta],
         ret |-> 0,
         unclamped |-> 0]

(***************************************************************************)
(* MetricsEngine (analysis/metrics_engine.py)                              *)
(* A DataFrame is [n |-> its number of rows, columns |-> its column names, *)
(* dt |-> time_s[1] - time_s[0], T_fuel, speed_rpm, grid_frequency_hz |->  *)
(* the series the safety metrics read].  The metrics computed by           *)
(* quadrature, deviation or entropy have the value the call is given as q; *)
(* their arithmetic is outside the model.                                  *)
(***************************************************************************)
METRIC_KEYS ==
    <<"transient_severity_score", "grid_load_following_index",
      "agility_response_time_index", "integrated_thermal_margin_violation_c_s",
      "thermal_transient_burden", "core_power_oscillation_index",
      "max_rotor_angle_deviation_rad", "negative_damping_events",
      "control_policy_entropy", "max_overshoot_speed_pct",
      "max_undershoot_speed_pct", "iae_freq_hz_s", "ise_freq_hz_s",
      "time_over_fuel_temp_limit_s", "time_over_speed_limit_s",
      "time_outside_freq_limit_s", "total_time_unsafe_s", "max_fuel_temp_c",
      "max_speed_rpm", "max_freq_deviation_hz", "min_freq_nadir_hz",
      "control_effort_valve_abs_sum", "control_effort_valve_sq_sum",
      "valve_reversals">>

\* the row count below which calculate skips the computation
MIN_ROWS == 20

\* {key: np.nan for key in self.METRIC_KEYS}
AllNaN == [k \in {METRIC_KEYS[i] : i \in 1..Len(METRIC_KEYS)} |-> NaN]

\* metrics[key] = value: a key that is not yet in the dict is added to it
SetItem(m, key, value) ==
    [k \in DOMAIN m \cup {key} |-> IF k = key THEN value ELSE m[k]]

\* the assignments of the try block in program order: the key assigned, the
\* columns read to compute it, and the condition under which it is reached
Assignments ==
    <<[key |-> "grid_load_following_index",
       needs |-> {"load_demand_mw", "mechanical_power_mw"}, when |-> "always"],
      [key |-> "agility_response_time_index",
       needs |-> {"load_demand_mw", "time_s", "mechanical_power_mw"},
       when |-> "sudden"],
      [key |-> "integrated_thermal_margin_violation_c_s",
       needs |-> {"T_fuel"}, when |-> "always"],
      [key |-> "thermal_transient_burden", needs |-> {}, when |-> "T_moderator"],
      [key |-> "core_power_oscillation_index",
       needs |-> {"reactor_power_mw"}, when |-> "always"],
      [key |-> "max_rotor_angle_deviation_rad",
       needs |-> {}, when |-> "rotor_angle_rad"],
      [key |-> "negative_damping_events",
       needs |-> {"grid_frequency_hz", "mechanical_power_mw", "load_demand_mw"},
       when |-> "always"],
      [key |-> "control_policy_entropy",
       needs |-> {"v_pos_actual"}, when |-> "always"],
      [key |-> "max_freq_deviation_hz",
       needs |-> {"grid_frequency_hz"}, when |-> "always"],
      [key |-> "min_freq_nadir_hz",
       needs |-> {"grid_frequency_hz"}, when |-> "always"],
      [key |-> "max_speed_rpm", needs |-> {"speed_rpm"}, when |-> "always"],
      [key |-> "max_fuel_temp_c", needs |-> {"T_fuel"}, when |-> "always"],
      [key |-> "max_overshoot_speed_pct",
       needs |-> {"speed_rpm"}, when |-> "always"],
      [key |-> "max_undershoot_speed_pct", needs |-> {}, when |-> "always"],
      [key |-> "iae_freq_hz_s",
       needs |-> {"grid_frequency_hz"}, when |-> "always"],
      [key |-> "ise_freq_hz_s", needs |-> {}, when |-> "always"],
      [key |-> "control_effort_valve_abs_sum",
       needs |-> {"v_pos_actual"}, when |-> "always"],
      [key |-> "control_effort_valve_sq_sum", needs |-> {}, when |-> "always"],
      [key |-> "valve_reversals", needs |-> {}, when |-> "always"],
      [key |-> "transient_severity_score", needs |-> {}, when |-> "always"],
      [key |-> "time_over_fuel_temp_limit_s",
       needs |-> {"T_fuel"}, when |-> "always"],
      [key |-> "time_over_speed_limit_s",
       needs |-> {"speed_rpm"}, when |-> "always"],
      [key |-> "time_outside_freq_limit_s",
       needs |-> {"grid_frequency_hz"}, when |-> "always"],
      [key |-> "total_time_unsafe_s", needs |-> {}, when |-> "always"]>>

\* whether the statement of assignment a is reached and assigns
Reached(a, df, scenario_config) ==
    IF a.when = "always" THEN TRUE
    ELSE IF a.when = "sudden"
         THEN scenario_config.sudden /\ df.responds
    ELSE a.when \in df.columns

\* the largest value of a series
SeriesMax(df, col) ==
    CHOOSE v \in {df[col][i] : i \in 1..df.n} :
        \A i \in 1..df.n : df[col][i] <= v

\* mutant: only a frequency under the band counts
Outside_freq_limit_low_only(f, lo, hi) == FLT(f, lo)

\* (grid_frequency_hz < min_frequency_hz) | (grid_frequency_hz > max_frequency_hz)
Outside_freq_limit(f, lo, hi) == FLT(f, lo) \/ FGT(f, hi)

\* the three unsafe-time metrics and their total
UnsafeTime(key, m, df, safety_limits) ==
    IF key = "time_over_fuel_temp_limit_s"
    THEN LET limit == Get(safety_limits, "max_fuel_temp_c", 9999 * ONE)
             Over(i) == FGT(df.T_fuel[i], limit)
         IN  FScale(Cardinality({i \in 1..df.n : Over(i)}), df.dt)
    ELSE IF key = "time_over_speed_limit_s"
    THEN LET limit == Get(safety_limits, "max_speed_rpm", 9999 * ONE)
             Over(i) == FGT(df.speed_rpm[i], limit)
         IN  FScale(Cardinality({i \in 1..df.n : Over(i)}), df.dt)
    ELSE IF key = "time_outside_freq_limit_s"
    THEN LET lo == Get(safety_limits, "min_frequency_hz", 0)
             hi == Get(safety_limits, "max_frequency_hz", 99 * ONE)
             Out(i) == Outside_freq_limit(df.grid_frequency_hz[i], lo, hi)
         IN  FScale(Cardinality({i \in 1..df.n : Out(i)}), df.dt)
    ELSE FAdd(FAdd(m["time_over_fuel_temp_limit_s"],
                   m["time_over_speed_limit_s"]),
              m["time_outside_freq_limit_s"])

\* the value assigned to a key
MetricValue(key, m, df, safety_limits, q) ==
    IF key \in {"time_over_fuel_temp_limit_s", "time_over_speed_limit_s",
                "time_outside_freq_limit_s", "total_time_unsafe_s"}
    THEN UnsafeTime(key, m, df, safety_limits)
    ELSE IF key = "max_speed_rpm" THEN SeriesMax(df, "speed_rpm")
    ELSE IF key = "max_fuel_temp_c" THEN SeriesMax(df, "T_fuel")
    ELSE q

\* mutant: the handler returns the dict the try block was filling
Metrics_on_exception_partial(m) == m

\* mutant: except KeyError
Metrics_catches_KeyError_only(exc) == exc = "KeyError"

\* mutant: one assignment stores under a misspelt key
Metrics_key_misspelt(a) ==
    IF a.key = "valve_reversals" THEN "valve_reversal_count" ELSE a.key

\* the dict returned by the handler of the try block; m is the dict as the
\* exception left it
Metrics_on_exception(m) == AllNaN

\* except Exception: the handler catches a KeyError and any other Exception
Metrics_catches(exc) == exc \in {"KeyError", "Exception"}

\* the key an assignment stores under
Metrics_key(a) == a.key

\* the try block from assignment i on: fault is the assignment at which an
\* exception other than a missing column is raised (0: none)
RECURSIVE Metrics_try(_, _, _, _, _, _, _)
Metrics_try(i, m, df, scenario_config, safety_limits, fault, q) ==
    IF i > Len(Assignments) THEN [raised |-> "none", metrics |-> m]
    ELSE LET a == Assignments[i]
             reached == Reached(a, df, scenario_config)
         IN  IF reached /\ ~ (a.needs \subseteq df.columns)
             THEN [raised |-> "KeyError", metrics |-> m]
             ELSE IF i = fault
             THEN [raised |-> "Exception", metrics |-> m]
             ELSE Metrics_try(i + 1,
                    IF reached
                    THEN SetItem(m, Metrics_key(a),
                                 MetricValue(a.key, m, df, safety_limits, q))
                    ELSE m,
                    df, scenario_config, safety_limits, fault, q)

\* the robustness check before the try block
Metrics_skips(df) ==
    \/ df.n = 0 \/ df.columns = {}
    \/ "time_s" \notin df.columns
    \/ df.n < MIN_ROWS

\* MetricsEngine.calculate: [ret |-> the dict returned, path |-> the path
\* taken, propagated |-> whether an exception left the call (ret is then
\* no value: the empty dict stands for it), partial |-> the dict as the try
\* block left it]
MetricsEngine_calculate(df, scenario_config, safety_limits, fault, q) ==
    LET metrics == AllNaN
    IN  IF Metrics_skips(df)
        THEN [ret |-> metrics, path |-> "skipped", propagated |-> FALSE,
              partial |-> metrics]
        ELSE LET r == Metrics_try(1, metrics, df, scenario_config,
                                  safety_limits, fault, q)
             IN  IF r.raised = "none"
                 THEN [ret |-> r.metrics, path |-> "computed",
                       propagated |-> FALSE, partial |-> r.metrics]
                 ELSE IF Metrics_catches(r.raised)
                 THEN [ret |-> Metrics_on_exception(r.metrics),
                       path |-> "except", propagated |-> FALSE,
                       partial |-> r.metrics]
                 ELSE [ret |-> <<>>, path |-> "except", propagated |-> TRUE,
                       partial |-> r.metrics]

(***************************************************************************)
(* get_scenarios (analysis/scenario_definitions.py)                        *)
(***************************************************************************)
\* the scenarios as get_scenarios defines them, before its final loop;
\* max_steps is int(seconds / sim_dt), for sim_dt > 0
Scenario_definitions(sim_dt, initial_load_base, eta_base) ==
    [name \in {"baseline_steady_state", "gradual_load_increase_10pct",
               "sudden_load_increase_5pct", "steady_state_efficiency_probe",
               "deceptive_sensor_noise", "parameter_randomization_drills",
               "cascading_grid_fault_and_recovery",
               "combined_challenge_final_exam"} |->
       CASE name = "baseline_steady_state" ->
              [description |-> "Baseline steady-state operation at 90% power.",
               load_profile_func |-> constant_load(initial_load_base),
               max_steps |-> (500 * ONE) \div sim_dt,
               reset_options |-> [initial_power_level |-> (9 * ONE) \div 10]]
         [] name = "gradual_load_increase_10pct" ->
              [description |-> "Gradual load ramp from 90% to 100%.",
               load_profile_func |->
                   gradual_load_change(FMul(initial_load_base, (9 * ONE) \div 10),
                                       initial_load_base, 20 * ONE, 300 * ONE),
               max_steps |-> (400 * ONE) \div sim_dt,
               reset_options |-> [initial_power_level |-> (9 * ONE) \div 10]]
         [] name = "sudden_load_increase_5pct" ->
              [description |-> "Sudden +5% load increase from nominal.",
               load_profile_func |->
                   step_load_change(initial_load_base,
                                    FMul(initial_load_base, (105 * ONE) \div 100),
                                    20 * ONE),
               max_steps |-> (300 * ONE) \div sim_dt]
         [] name = "steady_state_efficiency_probe" ->
              [description |->
                   "RL Drill: A long, quiet hold to enforce control efficiency.",
               load_profile_func |-> constant_load(initial_load_base),
               max_steps |-> (1800 * ONE) \div sim_dt,
               is_efficiency_probe |-> TRUE]
         [] name = "deceptive_sensor_noise" ->
              [description |->
                   "Adversarial Test: High, dynamic sensor noise during a load ramp.",
               load_profile_func |->
                   gradual_load_change(FMul(initial_load_base, (9 * ONE) \div 10),
                                       initial_load_base, 20 * ONE, 300 * ONE),
               max_steps |-> (400 * ONE) \div sim_dt,
               reset_options |-> [initial_power_level |-> (9 * ONE) \div 10],
               adversarial_noise |->
                   [active |-> TRUE, initial_magnitude |-> (5 * ONE) \div 100,
                    final_magnitude |-> (15 * ONE) \div 100,
                    bias_magnitude |-> 8 * ONE],
               is_adversarial_drill |-> TRUE]
         [] name = "parameter_randomization_drills" ->
              [description |->
                   "RL Drill: Train against randomized physics for generalization.",
               load_profile_func |-> constant_load(initial_load_base),
               max_steps |-> (400 * ONE) \div sim_dt,
               is_domain_randomization_drill |-> TRUE,
               is_adversarial_drill |-> TRUE]
         [] name = "cascading_grid_fault_and_recovery" ->
              [description |->
                   "Adversarial Drill: A cascading grid fault followed by recovery demand.",
               load_profile_func |->
                   multi_step_load_profile(
                     <<<<initial_load_base, 0>>,
                       <<FMul(initial_load_base, (8 * ONE) \div 10), 20 * ONE>>,
                       <<FMul(initial_load_base, (85 * ONE) \div 100), 120 * ONE>>,
                       <<FMul(initial_load_base, (105 * ONE) \div 100), 150 * ONE>>>>),
               max_steps |-> (500 * ONE) \div sim_dt,
               env_modifications |->
                   <<[type |-> "grid_power_imbalance", imbalance_mw |-> 50 * ONE,
                      start_time |-> 20 * ONE, end_time |-> 25 * ONE]>>,
               is_adversarial_drill |-> TRUE]
         [] name = "combined_challenge_final_exam" ->
              [description |->
                   "Final Exam: Compound failure with grid fault, component degradation, and noise.",
               load_profile_func |->
                   step_load_change(initial_load_base,
                                    FMul(initial_load_base, (11 * ONE) \div 10),
                                    20 * ONE),
               max_steps |-> (400 * ONE) \div sim_dt,
               env_modifications |->
                   <<[type |-> "parameter_ramp",
                      parameter_path |-> <<"coupling", "eta_transfer">>,
                      start_value |-> eta_base,
                      end_value |-> FMul(eta_base, (90 * ONE) \div 100),
                      start_time |-> 50 * ONE, duration |-> 150 * ONE]>>,
               adversarial_noise |->
                   [active |-> TRUE, initial_magnitude |-> (2 * ONE) \div 100,
                    final_magnitude |-> (5 * ONE) \div 100,
                    bias_magnitude |-> 2 * ONE],
               is_adversarial_drill |-> TRUE]]

\* mutant: the final loop gives every scenario an empty reset_options
Scenario_ensure_reset_options_always(config_dict) ==
    SetItem(config_dict, "reset_options", <<>>)

\* the final loop of get_scenarios, for one scenario
Scenario_ensure_reset_options(config_dict) ==
    IF "reset_options" \notin DOMAIN config_dict
    THEN SetItem(config_dict, "reset_options", <<>>)
    ELSE config_dict

\* get_scenarios: [raised |-> the exception that leaves it or "none",
\* scenarios |-> the mapping returned]; a KeyError while reading core_config
\* is caught and gives the empty mapping
get_scenarios(core_config) ==
    IF \/ "simulation" \notin DOMAIN core_config
       \/ "dt" \notin DOMAIN core_config.simulation
    THEN [raised |-> "none", scenarios |-> <<>>]
    ELSE LET sim_dt == core_config.simulation.dt
             initial_load_base ==
                 Get(Get(core_config, "initial_conditions", <<>>),
                     "electrical_load_mw", (30085 * ONE) \div 10)
             eta_base == Get(Get(core_config, "coupling", <<>>),
                             "eta_transfer", (98 * ONE) \div 100)
             scenarios == Scenario_definitions(sim_dt, initial_load_base, eta_base)
         IN  IF sim_dt = 0
             THEN [raised |-> "ZeroDivisionError", scenarios |-> <<>>]
             ELSE [raised |-> "none",
                   scenarios |->
                       [name \in DOMAIN scenarios |->
                          Scenario_ensure_reset_options(scenarios[name])]]

\* the columns of results_df that calculate reads
ALL_COLUMNS ==
    {"time_s", "load_demand_mw", "mechanical_power_mw", "T_fuel", "T_moderator",
     "reactor_power_mw", "rotor_angle_rad", "grid_frequency_hz", "v_pos_actual",
     "speed_rpm"}

(***************************************************************************)
(* PWRGymEnvUnified, the environment the executor drives.  state is its    *)
(* lifecycle state, calls the env.step calls made, steps those that        *)
(* returned, closes the env.close calls, misuse whether env.step was ever  *)
(* called outside READY and STEPPING.                                      *)
(***************************************************************************)
\* no environment constructed
Env_none == [state |-> "none", calls |-> 0, steps |-> 0, closes |-> 0,
             misuse |-> FALSE]

Env_new == [Env_none EXCEPT !.state = "UNINITIALIZED"]

Env_reset(env) == [env EXCEPT !.state = "READY", !.steps = 0]

Env_step(env, terminated, truncated) ==
    [env EXCEPT !.state = IF terminated THEN "TERMINATED"
                          ELSE IF truncated THEN "TRUNCATED" ELSE "STEPPING",
                !.calls = @ + 1,
                !.steps = @ + 1,
                !.misuse = @ \/ env.state \notin {"READY", "STEPPING"}]

\* a step that raises
Env_step_raises(env) ==
    [env EXCEPT !.calls = @ + 1,
                !.misuse = @ \/ env.state \notin {"READY", "STEPPING"}]

Env_close(env) == [env EXCEPT !.state = "CLOSED", !.closes = @ + 1]

\* the info record: the raw physical variables
Env_info(time_s, T_fuel) ==
    [c \in ALL_COLUMNS |-> CASE c = "time_s" -> time_s
                             [] c = "T_fuel" -> T_fuel
                             [] c = "speed_rpm" -> 1800 * ONE
                             [] c = "grid_frequency_hz" -> 60 * ONE
                             [] OTHER -> 0]

(***************************************************************************)
(* ScenarioExecutor (analysis/scenario_executor.py)                        *)
(***************************************************************************)
\* the step limit when neither the scenario nor the simulation gives one
DEFAULT_MAX_STEPS == 5000

\* d.get(key) or y: a missing key gives None, and None and 0 are falsy
GetOr(d, key, y) == IF key \in DOMAIN d /\ d[key] # 0 THEN d[key] ELSE y

\* the step limit of an episode
Exec_max_steps(scenario_config, core_params) ==
    GetOr(scenario_config, "max_steps",
          Get(Get(core_params, "simulation", <<>>), "max_steps",
              DEFAULT_MAX_STEPS))

\* {'step': step, **info}: a key of info replaces the same key before it
Exec_log_entry(step, info) ==
    [k \in {"step"} \cup DOMAIN info |->
        IF k \in DOMAIN info THEN info[k] ELSE step]

\* {'error': ...}
Exec_error_entry == [error |-> 1]

\* mutant: the loop does not look at truncated
Exec_loop_continues_ignores_truncated(e) ==
    ~ e.terminated /\ e.step_count < e.max_steps

\* the condition of the while loop
Exec_loop_continues(e) ==
    ~ e.terminated /\ ~ e.truncated /\ e.step_count < e.max_steps

\* mutant: the valve is shut when the controller raises
Exec_action_on_error_zero == <<0>>

\* the action used when the controller raises
Exec_action_on_error == <<ONE \div 2>>

\* np.array([action_value]).flatten()
Exec_action(action_value) == <<action_value>>

\* mutant: step_count is not advanced
Exec_next_step_count_stuck(step_count) == step_count

\* step_count += 1
Exec_next_step_count(step_count) == step_count + 1

\* execute: one turn of the for loop over the entries yielded
Execute_collect(results_data, log_entry) ==
    IF "error" \in DOMAIN log_entry
    THEN [results_data |-> results_data, stop |-> TRUE]
    ELSE [results_data |-> Append(results_data, log_entry), stop |-> FALSE]

\* mutant: execute without its except clause
Execute_catches_nothing(exc) == FALSE

\* execute: except Exception around the for loop
Execute_catches(exc) == exc = "Exception"

\* pd.DataFrame(results_data): one row per entry, in order
pd_DataFrame(results_data) ==
    LET n == Len(results_data)
    IN  [n |-> n,
         columns |-> IF n = 0 THEN {} ELSE DOMAIN results_data[1],
         dt |-> IF n < 2 THEN 0
                ELSE results_data[2].time_s - results_data[1].time_s,
         responds |-> FALSE,
         T_fuel |-> [i \in 1..n |-> results_data[i].T_fuel],
         speed_rpm |-> [i \in 1..n |-> results_data[i].speed_rpm],
         grid_frequency_hz |-> [i \in 1..n |-> results_data[i].grid_frequency_hz]]

(***************************************************************************)
(* run_single_sim_and_extract_detailed_metrics                             *)
(* (optimization_suite/optimization_utils.py)                              *)
(***************************************************************************)
\* the parameters of MetricsEngine.calculate after self
CALCULATE_PARAMETERS == 2

\* the arguments the call of calculate passes
RunSingle_calculate_args(results_df, safety_limits, scenario_config) ==
    <<results_df, safety_limits, scenario_config>>

\* mutant: the initial record lacks the metrics entry
RunSingle_output_results_no_metrics ==
    [completed_successfully |-> FALSE, termination_reason |-> "Unknown",
     raw_results_df |-> <<>>, error_message |-> "None"]

\* the initial output_results
RunSingle_output_results ==
    [completed_successfully |-> FALSE, termination_reason |-> "Unknown",
     metrics |-> <<>>, raw_results_df |-> <<>>, error_message |-> "None"]

\* the except Exception handler
RunSingle_except(out, e) ==
    [k \in DOMAIN out \cup {"error_message", "completed_successfully",
                            "termination_reason"} |->
        CASE k = "error_message" -> e
          [] k = "completed_successfully" -> FALSE
          [] k = "termination_reason" -> "Exception during execution"
          [] OTHER -> out[k]]

\* finally: return output_results
RunSingle_finally(out) == [raised |-> FALSE, value |-> out]

\* the function when setting up (ScenarioExecutor(...), MetricsEngine(...),
\* controller_instance.reset()) raises
RunSingle_setup_raises ==
    RunSingle_finally(RunSingle_except(RunSingle_output_results, "setup"))

\* the function from the return of executor.execute on
RunSingle_process(results_df, scenario_config, core_params, q) ==
    LET out == SetItem(RunSingle_output_results, "raw_results_df", results_df)
        safety_limits == Get(core_params, "safety_limits", <<>>)
        engine_limits == Get(Get(core_params, "metrics_config", <<>>),
                             "safety_limits", <<>>)
        args == RunSingle_calculate_args(results_df, safety_limits,
                                         scenario_config)
    IN  IF Len(results_df) < 2
        THEN RunSingle_finally(
                SetItem(SetItem(out, "error_message",
                                "Simulation returned no valid data."),
                        "termination_reason",
                        "Insufficient Data / Early Failure"))
        ELSE IF Len(args) # CALCULATE_PARAMETERS
        THEN RunSingle_finally(RunSingle_except(out, "TypeError"))
        ELSE LET r == MetricsEngine_calculate(pd_DataFrame(args[1]),
                                              args[Len(args)], engine_limits,
                                              0, q)
                 metrics_dict == r.ret
                 out2 == SetItem(out, "metrics", metrics_dict)
             IN  IF FGT(Get(metrics_dict, "total_time_unsafe_s", 0), 0)
                 THEN RunSingle_finally(
                        SetItem(SetItem(out2, "completed_successfully", FALSE),
                                "termination_reason", "Safety Limit Violation"))
                 ELSE RunSingle_finally(
                        SetItem(SetItem(out2, "completed_successfully", TRUE),
                                "termination_reason", "Completed Nominally"))

(***************************************************************************)
(* Configurations and inputs.                                              *)
(***************************************************************************)
ReactorConfigs ==
    {[beta_i |-> <<2, 4>>, lambda_i |-> <<10, 50>>, Lambda |-> 10,
      beta_total |-> 6, alpha_f |-> -1, alpha_c |-> -2,
      C_f |-> 2 * ONE, C_c |-> 4 * ONE, Omega |-> ONE, P0 |-> 10 * ONE,
      T_inlet |-> 20 * ONE, T_coolant0 |-> 30 * ONE, T_fuel0 |-> 60 * ONE]}
ReactorResetArgs == {-(ONE \div 2), 0, (9 * ONE) \div 10, ONE}
ReactorDts == {ONE \div 10, ONE}
RodReactivities == {-ONE, 0, 5}

TurbineConfigs ==
    {<<[tau_t |-> 2 * ONE, tau_v |-> ONE \div 2, omega_nominal_rpm |-> 1800 * ONE],
       [eta_transfer |-> (98 * ONE) \div 100]>>}
TurbineResetArgs ==
    {<<0, (8 * ONE) \div 10>>, <<10 * ONE, 0>>, <<10 * ONE, (3 * ONE) \div 2>>}
TurbineDts == {ONE \div 10, ONE}
ThermalPowers == {0, 10 * ONE}
ValveCommands == {-(ONE \div 2), ONE \div 2, (5 * ONE) \div 2}

GridConfigs ==
    {[H |-> 5 * ONE, D |-> 2 * ONE, f_nominal |-> 60 * ONE, S_base |-> 10 * ONE]}
GridLoads == {10 * ONE}
GridProfiles ==
    {step_load_change(10 * ONE, (105 * ONE) \div 10, 20 * ONE)}
GridDts == {ONE \div 2}
MechanicalPowers == {8 * ONE, 10 * ONE, (105 * ONE) \div 10, 30 * ONE}
GridTimes == {<<0, 0>>, <<20 * ONE, 1>>}

RCDts == {0, ONE \div 2, ONE}
RCSetpoints == {RC_setpoint, 300 * ONE}
ModeratorTemps ==
    {RC_setpoint, RC_setpoint + ONE, RC_setpoint - 3 * ONE, 5000 * ONE,
     PInf, NInf}

PIDConfigs ==
    {<<>>,
     [kp |-> ONE \div 10, ki |-> ONE, kd |-> 0, setpoint |-> 0,
      output_limits |-> <<-ONE, ONE>>, deriv_filter_tau |-> 0],
     [kp |-> 0, ki |-> 5 * ONE, kd |-> 0, setpoint |-> 0,
      output_limits |-> <<0, ONE>>, deriv_filter_tau |-> 0]}
PIDDts == {(2 * ONE) \div 100}
Observations(s) ==
    {<<>>} \cup {<<0, 0, 0, 0, m>> : m \in {s.setpoint, s.setpoint + ONE \div 2,
                                         s.setpoint - 20 * ONE,
                                         -((FMAX \div 2))}}
\* arguments of PIDController(config, dt)
ConstructConfigs ==
    {[type |-> "dict", value |-> c] : c \in PIDConfigs}
    \cup {[type |-> "dict", value |-> [output_limits |-> l]] :
             l \in {<<ONE, 0>>, <<ONE, ONE>>}}
    \cup {[type |-> "list", value |-> <<>>], [type |-> "NoneType", value |-> <<>>]}
ConstructDts ==
    {[type |-> "float", value |-> (2 * ONE) \div 100],
     [type |-> "float", value |-> 0],
     [type |-> "float", value |-> -ONE],
     [type |-> "int", value |-> ONE],
     [type |-> "str", value |-> ONE],
     [type |-> "NoneType", value |-> 0]}
NewParams ==
    {[kp |-> 0], [ki |-> ONE \div 2, kd |-> ONE \div 10],
     [setpoint |-> 1750 * ONE]}

\* DataFrames: rows 1..over_fuel exceed the fuel limit, rows 1..over_speed the
\* speed limit, rows 1..low_freq lie under the frequency band and, when there
\* are such rows, the row after them lies above it
MaxRows == 21
DataFrame(n, columns, over_fuel, over_speed, low_freq, responds) ==
    [n |-> n, columns |-> columns, dt |-> (2 * ONE) \div 100,
     responds |-> responds,
     T_fuel |-> [i \in 1..n |-> IF i <= over_fuel THEN 2900 * ONE ELSE 600 * ONE],
     speed_rpm |-> [i \in 1..n |-> IF i <= over_speed THEN 2300 * ONE ELSE 1800 * ONE],
     grid_frequency_hz |->
         [i \in 1..n |-> IF i <= low_freq THEN 58 * ONE
                         ELSE IF low_freq > 0 /\ i = low_freq + 1 THEN 62 * ONE
                         ELSE 60 * ONE]]
DataFrames ==
    {DataFrame(n, ALL_COLUMNS \ missing, of, os, lf, r) :
        n \in {0, 1, MIN_ROWS - 1, MIN_ROWS, MaxRows},
        missing \in {{}} \cup {{c} : c \in ALL_COLUMNS} \cup {ALL_COLUMNS},
        of \in {0, 2}, os \in {0, 1}, lf \in {0, 2}, r \in BOOLEAN}
ScenarioConfigs == {[sudden |-> FALSE], [sudden |-> TRUE]}
SafetyLimits ==
    {[max_fuel_temp_c |-> 2800 * ONE, max_speed_rpm |-> 2250 * ONE,
      min_frequency_hz |-> 59 * ONE, max_frequency_hz |-> 61 * ONE],
     [max_fuel_temp_c |-> 3000 * ONE, max_speed_rpm |-> 2250 * ONE,
      min_frequency_hz |-> 57 * ONE, max_frequency_hz |-> 61 * ONE]}
Faults == 0..Len(Assignments)
OpaqueValues == {7 * ONE}

\* the times a load profile is called at
ProfileTimes ==
    {0, 20 * ONE - 1, 20 * ONE, 20 * ONE + 1, 30 * ONE, 50 * ONE, 130 * ONE,
     400 * ONE}

\* a mapping without one of its keys
Without(d, key) == [k \in DOMAIN d \ {key} |-> d[k]]
\* the keys TurbineModel.__init__ reads from coupling_params and from
\* turbine_params
COUPLING_KEYS == {"eta_transfer", "tau_delay"}
TURBINE_KEYS == {"tau_t", "tau_v", "omega_nominal_rpm"}
\* the keys GridModel.__init__ reads
GRID_KEYS == {"H", "D", "f_nominal", "S_base"}

\* the episode driver: scenario configurations, core parameters, what the
\* controller and the environment do
MaxEnvSteps == 3
ExecScenarioConfigs ==
    {[sudden |-> FALSE],
     [sudden |-> FALSE, max_steps |-> 0],
     [sudden |-> FALSE, max_steps |-> 1],
     [sudden |-> FALSE, max_steps |-> 2]}
CoreParams ==
    {[simulation |-> <<>>, safety_limits |-> sl] : sl \in SafetyLimits}
    \cup {[simulation |-> [max_steps |-> 1], safety_limits |-> sl] :
             sl \in SafetyLimits}
ControllerOutcomes ==
    {[raises |-> TRUE, value |-> 0], [raises |-> FALSE, value |-> 0],
     [raises |-> FALSE, value |-> ONE]}
FuelTemps == {600 * ONE, 2900 * ONE}
\* what env.step does: it raises, or returns its flags and info; it
\* truncates the episode at its own step limit at the latest
EnvOutcomes(env) ==
    {[raises |-> TRUE, terminated |-> FALSE, truncated |-> FALSE, T_fuel |-> 0]}
    \cup {[raises |-> FALSE, terminated |-> te, truncated |-> tr, T_fuel |-> T] :
            te \in BOOLEAN, T \in FuelTemps,
            tr \in IF env.steps + 1 >= MaxEnvSteps THEN {TRUE} ELSE BOOLEAN}

(***************************************************************************)
(* The state machine.  focus is the object a behaviour exercises; twin is  *)
(* a second copy of it, constructed from the same configuration at each    *)
(* reset and then given the same calls; last is the last call, with the    *)
(* object before it (pre), what it returned (ret) and what the twin        *)
(* returned (twin_ret); episode tells whether a reset has begun an episode *)
(* (began), whether the object had been used before that reset (dirty) and *)
(* the steps taken since.                                                  *)
(***************************************************************************)
Components ==
    {"ReactorModel", "TurbineModel", "GridModel", "ReactorController",
     "PIDController", "MetricsEngine", "ScenarioExecutor",
     "scenario_definitions"}

NoCall == [op |-> "init"]

\* the driver before run_single_sim_and_extract_detailed_metrics is called
Exec_idle ==
    [pc |-> "idle", scenario_config |-> <<>>, core_params |-> <<>>,
     env |-> Env_none, reset_ok |-> FALSE,
     terminated |-> FALSE, truncated |-> FALSE,
     step_count |-> 0, max_steps |-> 0, results_data |-> <<>>,
     ctrl_calls |-> 0, raised_at |-> {},
     iter |-> [n |-> 0, ctrl_raised |-> FALSE, action |-> <<>>,
               env_raised |-> FALSE, asked_before |-> 0],
     results_df |-> <<>>, propagated |-> FALSE,
     out |-> [raised |-> FALSE, value |-> <<>>]]

Init ==
    /\ focus \in Components
    /\ reactor \in {ReactorModel_init(c) : c \in ReactorConfigs}
    /\ turbine \in {TurbineModel_init(c[1], c[2]) : c \in TurbineConfigs}
    /\ grid \in {GridModel_init(c, <<>>) : c \in GridConfigs}
    /\ rc \in {ReactorController_init(dt) :
                 dt \in IF focus = "ReactorController" THEN RCDts ELSE {ONE}}
    /\ pid \in {PIDController_init(c, dt) :
                  c \in {x \in IF focus = "PIDController" THEN PIDConfigs ELSE {<<>>} :
                           \A dt \in PIDDts : ~ PIDController_init_raises(x, dt)},
                  dt \in PIDDts}
    /\ twin = CASE focus = "ReactorModel" -> reactor
                [] focus = "TurbineModel" -> turbine
                [] focus = "GridModel" -> grid
                [] focus = "ReactorController" -> rc
                [] focus = "PIDController" -> pid
                [] OTHER -> <<>>
    /\ last = NoCall
    /\ episode = [began |-> FALSE, dirty |-> FALSE, steps |-> 0, args |-> <<>>]
    /\ nops = 0
    /\ ex = Exec_idle

Call(name, args, pre, r, tr) ==
    [op |-> name, args |-> args, pre |-> pre, ret |-> r.ret,
     unclamped |-> r.unclamped, twin_ret |-> tr.ret]

NoRet == [ret |-> 0, unclamped |-> 0]

EpisodeReset(pre, fresh) ==
    [began |-> TRUE, dirty |-> pre # fresh, steps |-> 0, args |-> <<>>]
EpisodeStep == [episode EXCEPT !.steps = @ + 1]

\* a new object of the configuration (and, for a controller, the gains) of s
TurbineModel_fresh(s) ==
    TurbineModel_init([tau_t |-> s.tau_t, tau_v |-> s.tau_v,
                       omega_nominal_rpm |-> s.omega_nominal_rpm],
                      [eta_transfer |-> s.eta_transfer, tau_delay |-> s.tau_delay])
GridModel_fresh(s) ==
    GridModel_init([H |-> s.H, D |-> s.D, f_nominal |-> s.f_nominal,
                    S_base |-> s.S_base], <<>>)
PIDController_fresh(s) ==
    PIDController_update_parameters(PIDController_init(s.config, s.dt),
                                    PIDController_get_parameters(s))

ReactorReset ==
    /\ focus = "ReactorModel" /\ nops < MaxOps
    /\ \E ipf \in ReactorResetArgs :
         /\ reactor' = ReactorModel_reset(reactor, ipf)
         /\ twin' = ReactorModel_reset(
                        ReactorModel_init(ReactorModel_params(reactor)), ipf)
         /\ last' = Call("reset", <<ipf>>, reactor, NoRet, NoRet)
         /\ episode' = [EpisodeReset(reactor,
                            ReactorModel_init(ReactorModel_params(reactor)))
                           EXCEPT !.args = <<ipf>>]
    /\ nops' = nops + 1
    /\ UNCHANGED <<focus, ex, turbine, grid, rc, pid>>

ReactorStep ==
    /\ focus = "ReactorModel" /\ nops < MaxOps
    /\ \E dt \in ReactorDts, rod \in RodReactivities :
         LET r == ReactorModel_step(reactor, dt, rod)
             tr == ReactorModel_step(twin, dt, rod)
         IN  /\ reactor' = r.obj
             /\ twin' = tr.obj
             /\ last' = Call("step", <<dt, rod>>, reactor, r, tr)
    /\ episode' = EpisodeStep
    /\ nops' = nops + 1
    /\ UNCHANGED <<focus, ex, turbine, grid, rc, pid>>

TurbineReset ==
    /\ focus = "TurbineModel" /\ nops < MaxOps
    /\ \E a \in TurbineResetArgs :
         /\ turbine' = TurbineModel_reset(turbine, a[1], a[2])
         /\ twin' = TurbineModel_reset(TurbineModel_fresh(turbine), a[1], a[2])
         /\ last' = Call("reset", a, turbine, NoRet, NoRet)
    /\ episode' = EpisodeReset(turbine, TurbineModel_fresh(turbine))
    /\ nops' = nops + 1
    /\ UNCHANGED <<focus, ex, reactor, grid, rc, pid>>

TurbineStep ==
    /\ focus = "TurbineModel" /\ nops < MaxOps
    /\ \E dt \in TurbineDts, p \in ThermalPowers, v \in ValveCommands :
         LET r == TurbineModel_step(turbine, dt, p, v)
             tr == TurbineModel_step(twin, dt, p, v)
         IN  /\ turbine' = r.obj
             /\ twin' = tr.obj
             /\ last' = Call("step", <<dt, p, v>>, turbine, r, tr)
    /\ episode' = EpisodeStep
    /\ nops' = nops + 1
    /\ UNCHANGED <<focus, ex, reactor, grid, rc, pid>>

GridReset ==
    /\ focus = "GridModel" /\ nops < MaxOps
    /\ \E load \in GridLoads :
         /\ grid' = GridModel_reset(grid, load)
         /\ twin' = GridModel_reset(GridModel_fresh(grid), load)
         /\ last' = Call("reset", <<load>>, grid, NoRet, NoRet)
    /\ episode' = EpisodeReset(grid, GridModel_fresh(grid))
    /\ nops' = nops + 1
    /\ UNCHANGED <<focus, ex, reactor, turbine, rc, pid>>

GridSetLoadProfile ==
    /\ focus = "GridModel" /\ nops < MaxOps
    /\ \E f \in GridProfiles :
         /\ grid' = GridModel_set_load_profile(grid, f)
         /\ twin' = GridModel_set_load_profile(twin, f)
         /\ last' = Call("set_load_profile", <<f>>, grid, NoRet, NoRet)
    /\ nops' = nops + 1
    /\ UNCHANGED episode
    /\ UNCHANGED <<focus, ex, reactor, turbine, rc, pid>>

\* a step before any profile is installed raises and changes nothing
GridStep ==
    /\ focus = "GridModel" /\ nops < MaxOps
    /\ grid.load_profile_func.kind # "None"
    /\ \E dt \in GridDts, pm \in MechanicalPowers, t \in GridTimes :
         LET r == GridModel_step(grid, dt, pm, t[1], t[2])
             tr == GridModel_step(twin, dt, pm, t[1], t[2])
         IN  /\ grid' = r.obj
             /\ twin' = tr.obj
             /\ last' = Call("step", <<dt, pm, t[1], t[2]>>, grid, r, tr)
    /\ episode' = EpisodeStep
    /\ nops' = nops + 1
    /\ UNCHANGED <<focus, ex, reactor, turbine, rc, pid>>

RCReset ==
    /\ focus = "ReactorController" /\ nops < MaxOps
    /\ \E sp \in RCSetpoints :
         /\ rc' = ReactorController_reset(rc, sp)
         /\ twin' = ReactorController_reset(ReactorController_init(rc.dt), sp)
         /\ last' = Call("reset", <<sp>>, rc, NoRet, NoRet)
    /\ episode' = EpisodeReset(rc, ReactorController_init(rc.dt))
    /\ nops' = nops + 1
    /\ UNCHANGED <<focus, ex, reactor, turbine, grid, pid>>

RCStep ==
    /\ focus = "ReactorController" /\ nops < MaxOps
    /\ \E temp \in ModeratorTemps :
         LET r == ReactorController_step(rc, temp)
             tr == ReactorController_step(twin, temp)
         IN  /\ rc' = r.obj
             /\ twin' = tr.obj
             /\ last' = Call("step", <<temp>>, rc, r, tr)
    /\ episode' = EpisodeStep
    /\ nops' = nops + 1
    /\ UNCHANGED <<focus, ex, reactor, turbine, grid, pid>>

\* the twin is a controller of the same configuration and gains
PIDReset ==
    /\ focus = "PIDController" /\ nops < MaxOps
    /\ pid' = PIDController_reset(pid)
    /\ twin' = PIDController_reset(PIDController_fresh(pid))
    /\ last' = Call("reset", <<>>, pid, NoRet, NoRet)
    /\ episode' = EpisodeReset(pid, PIDController_fresh(pid))
    /\ nops' = nops + 1
    /\ UNCHANGED <<focus, ex, reactor, turbine, grid, rc>>

PIDStep ==
    /\ focus = "PIDController" /\ nops < MaxOps
    /\ \E observation \in Observations(pid) :
         LET r == PIDController_step(pid, observation)
             tr == PIDController_step(twin, observation)
         IN  /\ pid' = r.obj
             /\ twin' = tr.obj
             /\ last' = Call("step", <<observation>>, pid, r, tr)
    /\ episode' = EpisodeStep
    /\ nops' = nops + 1
    /\ UNCHANGED <<focus, ex, reactor, turbine, grid, rc>>

PIDUpdateParameters ==
    /\ focus = "PIDController" /\ nops < MaxOps
    /\ \E new_params \in NewParams \cup {PIDController_get_parameters(pid)} :
         /\ pid' = PIDController_update_parameters(pid, new_params)
         /\ twin' = PIDController_update_parameters(twin, new_params)
         /\ last' = Call("update_parameters", <<new_params>>, pid, NoRet, NoRet)
    /\ nops' = nops + 1
    /\ UNCHANGED episode
    /\ UNCHANGED <<focus, ex, reactor, turbine, grid, rc>>

\* the engine holds no state that calculate changes: one call per behaviour
\* shows every call
MetricsCalculate ==
    /\ focus = "MetricsEngine" /\ nops < 1
    /\ \E df \in DataFrames, sc \in ScenarioConfigs, sl \in SafetyLimits,
          fault \in Faults, q \in OpaqueValues :
         last' = [op |-> "calculate", df |-> df, scenario_config |-> sc,
                  safety_limits |-> sl, fault |-> fault,
                  out |-> MetricsEngine_calculate(df, sc, sl, fault, q)]
    /\ nops' = nops + 1
    /\ UNCHANGED episode
    /\ UNCHANGED <<focus, ex, reactor, turbine, grid, rc, pid, twin>>



\* a constructor call and how it ended
Construct(args, r) == [op |-> "construct", args |-> args, raised |-> r.raised]

\* PIDController(config, dt), as the first thing done
PIDConstruct ==
    /\ focus = "PIDController" /\ last.op = "init"
    /\ \E config \in ConstructConfigs, dt \in ConstructDts :
         LET r == PIDController_new(config, dt)
         IN  /\ last' = Construct(<<config, dt>>, r)
             /\ pid' = IF r.raised = "none" THEN r.obj ELSE pid
             /\ twin' = IF r.raised = "none" THEN r.obj ELSE twin
    /\ UNCHANGED <<focus, ex, reactor, turbine, grid, rc, episode, nops>>

\* ReactorModel(params), with all keys or without one of them
ReactorConstruct ==
    /\ focus = "ReactorModel" /\ last.op = "init"
    /\ \E missing \in {"none"} \cup REACTOR_KEYS :
         LET r == ReactorModel_new(Without(ReactorModel_params(reactor), missing))
         IN  /\ last' = Construct(<<missing>>, r)
             /\ reactor' = IF r.raised = "none" THEN r.obj ELSE reactor
             /\ twin' = IF r.raised = "none" THEN r.obj ELSE twin
    /\ UNCHANGED <<focus, ex, turbine, grid, rc, pid, episode, nops>>

\* TurbineModel(turbine_params, coupling_params)
TurbineConstruct ==
    /\ focus = "TurbineModel" /\ last.op = "init"
    /\ \E missing \in {"none"} \cup TURBINE_KEYS \cup COUPLING_KEYS :
         LET tp == [tau_t |-> turbine.tau_t, tau_v |-> turbine.tau_v,
                    omega_nominal_rpm |-> turbine.omega_nominal_rpm]
             cp == [eta_transfer |-> turbine.eta_transfer,
                    tau_delay |-> turbine.tau_delay]
             r == TurbineModel_new(Without(tp, missing), Without(cp, missing))
         IN  /\ last' = Construct(<<missing>>, r)
             /\ turbine' = IF r.raised = "none" THEN r.obj ELSE turbine
             /\ twin' = IF r.raised = "none" THEN r.obj ELSE twin
    /\ UNCHANGED <<focus, ex, reactor, grid, rc, pid, episode, nops>>

\* GridModel(grid_params, sim_params)
GridConstruct ==
    /\ focus = "GridModel" /\ last.op = "init"
    /\ \E missing \in {"none"} \cup GRID_KEYS :
         LET gp == [H |-> grid.H, D |-> grid.D, f_nominal |-> grid.f_nominal,
                    S_base |-> grid.S_base]
             r == GridModel_new(Without(gp, missing), <<>>)
         IN  /\ last' = Construct(<<missing>>, r)
             /\ grid' = IF r.raised = "none" THEN r.obj ELSE grid
             /\ twin' = IF r.raised = "none" THEN r.obj ELSE twin
    /\ UNCHANGED <<focus, ex, reactor, turbine, rc, pid, episode, nops>>


\* get_scenarios(core_config)
GetScenarios ==
    /\ focus = "scenario_definitions" /\ last.op = "init"
    /\ \E core_config \in
            {[simulation |-> [dt |-> (2 * ONE) \div 100]],
             [simulation |-> [dt |-> (2 * ONE) \div 100],
              initial_conditions |-> [electrical_load_mw |-> 1000 * ONE]],
             [simulation |-> [dt |-> 0]],
             [simulation |-> <<>>]} :
         LET r == get_scenarios(core_config)
         IN  last' = [op |-> "get_scenarios", core_config |-> core_config,
                      raised |-> r.raised, scenarios |-> r.scenarios,
                      name |-> "", args |-> <<>>, ret |-> 0]
    /\ UNCHANGED <<focus, ex, reactor, turbine, grid, rc, pid, twin, episode, nops>>

\* a call of the load profile of one of the scenarios returned
ScenarioProfileCall ==
    /\ focus = "scenario_definitions"
    /\ last.op \in {"get_scenarios", "profile"}
    /\ \E name \in DOMAIN last.scenarios, time_s \in ProfileTimes,
          step \in {0, 1000} :
         last' = [last EXCEPT
                    !.op = "profile", !.name = name,
                    !.args = <<time_s, step>>,
                    !.ret = CallProfile(last.scenarios[name].load_profile_func,
                                        time_s, step)]
    /\ UNCHANGED <<focus, ex, reactor, turbine, grid, rc, pid, twin, episode, nops>>

\* multi_step_load_profile(steps) and a call of the profile it returns;
\* steps is a list of <<load, start_time>>, the last one out of time order
MultiStepProfileCall ==
    /\ focus = "scenario_definitions"
    /\ last.op \in {"init", "multi_step"}
    /\ \E steps \in
            {<<<<10 * ONE, 0>>>>,
             <<<<10 * ONE, 30 * ONE>>, <<8 * ONE, 50 * ONE>>>>,
             <<<<10 * ONE, 0>>, <<8 * ONE, 20 * ONE>>, <<9 * ONE, 50 * ONE>>>>,
             <<<<10 * ONE, 0>>, <<8 * ONE, 20 * ONE>>, <<9 * ONE, 20 * ONE>>>>,
             <<<<10 * ONE, 0>>, <<8 * ONE, 50 * ONE>>, <<9 * ONE, 20 * ONE>>>>},
          time_s \in ProfileTimes, step \in {0, 1000} :
         last' = [op |-> "multi_step", steps |-> steps,
                  args |-> <<time_s, step>>,
                  ret |-> CallProfile(multi_step_load_profile(steps),
                                      time_s, step)]
    /\ UNCHANGED <<focus, ex, reactor, turbine, grid, rc, pid, twin, episode, nops>>

\* run_single_sim_and_extract_detailed_metrics up to the call of
\* executor.execute
RunSingleBegin ==
    /\ focus = "ScenarioExecutor" /\ ex.pc = "idle"
    /\ \E sc \in ExecScenarioConfigs, cp \in CoreParams, raises \in BOOLEAN :
         ex' = IF raises
               THEN [ex EXCEPT !.pc = "finished", !.scenario_config = sc,
                               !.core_params = cp,
                               !.raised_at = {"setup"},
                               !.out = RunSingle_setup_raises]
               ELSE [ex EXCEPT !.pc = "execute", !.scenario_config = sc,
                               !.core_params = cp]
    /\ UNCHANGED <<focus, reactor, turbine, grid, rc, pid, twin, last, episode, nops>>

\* execute_and_yield up to its first yield, and execute's handling of the
\* entry: the environment is constructed and reset
ExecStart ==
    /\ focus = "ScenarioExecutor" /\ ex.pc = "execute"
    /\ \E outcome \in {"new raises", "reset raises", "ok"}, T \in FuelTemps :
         LET env == IF outcome = "new raises" THEN Env_none
                    ELSE IF outcome = "reset raises" THEN Env_new
                    ELSE Env_reset(Env_new)
             entry == IF outcome = "ok"
                      THEN Exec_log_entry(-1, Env_info(0, T))
                      ELSE Exec_error_entry
             c == Execute_collect(ex.results_data, entry)
         IN  ex' = IF c.stop \/ outcome # "ok"
                   THEN [ex EXCEPT !.pc = "returned", !.env = env,
                                   !.raised_at = {"environment"},
                                   !.results_data = c.results_data,
                                   !.results_df = c.results_data]
                   ELSE [ex EXCEPT !.pc = "loop", !.env = env,
                                   !.reset_ok = TRUE,
                                   !.results_data = c.results_data,
                                   !.max_steps =
                                       Exec_max_steps(ex.scenario_config,
                                                      ex.core_params)]
    /\ UNCHANGED <<focus, reactor, turbine, grid, rc, pid, twin, last, episode, nops>>

\* one turn of the while loop: the controller is asked, the environment
\* stepped, the entry yielded and collected
ExecIterate ==
    /\ focus = "ScenarioExecutor" /\ ex.pc = "loop"
    /\ Exec_loop_continues(ex)
    /\ \E ctrl \in ControllerOutcomes, e \in EnvOutcomes(ex.env) :
         LET action == IF ctrl.raises THEN Exec_action_on_error
                       ELSE Exec_action(ctrl.value)
             iter == [n |-> ex.iter.n + 1, ctrl_raised |-> ctrl.raises,
                      action |-> action, env_raised |-> e.raises,
                      asked_before |-> ex.ctrl_calls]
         IN  IF e.raises
             THEN ex' = [ex EXCEPT !.pc = "returned",
                                   !.env = Env_step_raises(ex.env),
                                   !.raised_at =
                                       @ \cup {"environment"} \cup
                                       IF ctrl.raises THEN {"controller"}
                                       ELSE {},
                                   !.ctrl_calls = @ + 1,
                                   !.iter = iter,
                                   !.propagated =
                                       ~ Execute_catches("Exception"),
                                   !.results_df = ex.results_data]
             ELSE LET env == Env_step(ex.env, e.terminated, e.truncated)
                      entry == Exec_log_entry(ex.step_count,
                                   Env_info(env.steps * ((2 * ONE) \div 100),
                                            e.T_fuel))
                      c == Execute_collect(ex.results_data, entry)
                  IN  ex' = [ex EXCEPT
                               !.pc = IF c.stop THEN "returned" ELSE "loop",
                               !.env = env,
                               !.terminated = e.terminated,
                               !.truncated = e.truncated,
                               !.raised_at =
                                   @ \cup IF ctrl.raises THEN {"controller"}
                                          ELSE {},
                               !.ctrl_calls = @ + 1,
                               !.iter = iter,
                               !.results_data = c.results_data,
                               !.results_df = IF c.stop THEN c.results_data
                                              ELSE @,
                               !.step_count = Exec_next_step_count(@)]
    /\ UNCHANGED <<focus, reactor, turbine, grid, rc, pid, twin, last, episode, nops>>

\* the loop ends: the environment is closed, the generator is exhausted and
\* execute returns the table
ExecFinish ==
    /\ focus = "ScenarioExecutor" /\ ex.pc = "loop"
    /\ ~ Exec_loop_continues(ex)
    /\ ex' = [ex EXCEPT !.pc = "returned", !.env = Env_close(@),
                        !.results_df = ex.results_data]
    /\ UNCHANGED <<focus, reactor, turbine, grid, rc, pid, twin, last, episode, nops>>

\* run_single_sim_and_extract_detailed_metrics from the return of
\* executor.execute on
RunSingleFinish ==
    /\ focus = "ScenarioExecutor" /\ ex.pc = "returned"
    /\ \E q \in OpaqueValues :
         ex' = [ex EXCEPT !.pc = "finished",
                          !.out = IF ex.propagated
                                  THEN RunSingle_finally(
                                         RunSingle_except(
                                           RunSingle_output_results,
                                           "Exception"))
                                  ELSE RunSingle_process(ex.results_df,
                                         ex.scenario_config, ex.core_params,
                                         q)]
    /\ UNCHANGED <<focus, reactor, turbine, grid, rc, pid, twin, last, episode, nops>>

Next ==
    \/ ReactorReset \/ ReactorStep
    \/ TurbineReset \/ TurbineStep
    \/ GridReset \/ GridSetLoadProfile \/ GridStep
    \/ RCReset \/ RCStep
    \/ PIDReset \/ PIDStep \/ PIDUpdateParameters
    \/ MetricsCalculate
    \/ RunSingleBegin \/ ExecStart \/ ExecIterate \/ ExecFinish
    \/ RunSingleFinish
    \/ PIDConstruct \/ ReactorConstruct \/ TurbineConstruct \/ GridConstruct
    \/ GetScenarios \/ ScenarioProfileCall \/ MultiStepProfileCall

Spec == Init /\ [][Next]_vars

(***************************************************************************)
(* Properties.                                                             *)
(***************************************************************************)
InUnit(x) == FLE(0, x) /\ FLE(x, ONE)

\* C1: after every ReactorModel.step the power fraction held is >= 0, and
\* the thermal power returned (power fraction x P0) is >= 0 when P0 > 0.
C1_PowerNonNegative ==
    (focus = "ReactorModel" /\ last.op = "step") =>
        /\ FGE(reactor.power_level, 0)
        /\ (FGT(reactor.P0, 0) => FGE(last.ret, 0))

\* a step whose integration left the power negative, clamped to 0
C1_Witness ==
    /\ focus = "ReactorModel" /\ last.op = "step"
    /\ FLT(last.unclamped, 0)
    /\ reactor.power_level = 0
    /\ last.ret = 0

\* C2: the valve position is within [0,1] in every state a TurbineModel.step
\* has produced, whatever the command, the thermal power and dt; the only
\* states that hold a position outside [0,1] are those a reset with such an
\* initial_valve_pos has just produced.
C2_ValveInUnitInterval ==
    focus = "TurbineModel" =>
        \/ InUnit(turbine.valve_position)
        \/ (last.op = "reset" /\ ~ InUnit(last.args[2]))

\* a step with a command above 1.0 whose lag overshot 1.0 and was clamped
C2_Witness ==
    /\ focus = "TurbineModel" /\ last.op = "step"
    /\ FGT(last.args[3], ONE)
    /\ FGT(last.unclamped, ONE)
    /\ turbine.valve_position = ONE

\* C3: every value returned by PIDController.step lies within
\* [output_min, output_max], for every observation and every state reached
\* by step, reset and update_parameters.
C3_PIDOutputWithinBounds ==
    (focus = "PIDController" /\ last.op = "step") =>
        /\ FLE(pid.output_min, last.ret)
        /\ FLE(last.ret, pid.output_max)

\* C4: after any sequence of ReactorController.reset and step calls with
\* arbitrary (finite or infinite) moderator temperatures the integral term
\* is within [-5, 5], every returned rod reactivity is within
\* [-0.005, 0.005], and immediately after reset the integral term is 0.
C4_ReactorControllerBounds ==
    focus = "ReactorController" =>
        /\ FLE(-RC_integral_limit, rc._integral)
        /\ FLE(rc._integral, RC_integral_limit)
        /\ (last.op = "step" =>
              /\ FLE(-RC_reactivity_limit, last.ret)
              /\ FLE(last.ret, RC_reactivity_limit))
        /\ (last.op = "reset" => rc._integral = 0)

\* a step that saturated both the integral term and the output
C4_Witness ==
    /\ focus = "ReactorController" /\ last.op = "step"
    /\ rc._integral = RC_integral_limit
    /\ FGT(last.unclamped, RC_reactivity_limit)
    /\ last.ret = RC_reactivity_limit

\* the object a behaviour exercises
Focused ==
    CASE focus = "ReactorModel" -> reactor
      [] focus = "TurbineModel" -> turbine
      [] focus = "GridModel" -> grid
      [] focus = "ReactorController" -> rc
      [] focus = "PIDController" -> pid

\* C5: two copies of a model or a controller, one used before and one new,
\* that are reset with the same arguments and then given the same steps hold
\* identical states and return identical outputs at every step.
C5_Determinism ==
    focus \notin {"MetricsEngine", "ScenarioExecutor", "scenario_definitions"} =>
        /\ twin = Focused
        /\ (last.op = "step" => last.ret = last.twin_ret)

\* the second step after the reset of a controller that had been used
C5_Witness ==
    /\ focus = "PIDController" /\ last.op = "step"
    /\ episode.began /\ episode.dirty /\ episode.steps >= 2
    /\ pid._derivative_state # 0
    /\ twin = pid

\* C6: for ReactorModel, TurbineModel and GridModel the state after
\* reset(args) is the state a new model has after reset(args), whatever
\* preceded it, and a second reset(args) leaves it as it is.
C6_ResetHistoryIndependent ==
    last.op = "reset" =>
        /\ focus = "ReactorModel" =>
             /\ reactor = ReactorModel_reset(
                    ReactorModel_init(ReactorModel_params(reactor)), last.args[1])
             /\ ReactorModel_reset(reactor, last.args[1]) = reactor
        /\ focus = "TurbineModel" =>
             /\ turbine = TurbineModel_reset(TurbineModel_fresh(turbine),
                                             last.args[1], last.args[2])
             /\ TurbineModel_reset(turbine, last.args[1], last.args[2]) = turbine
        /\ focus = "GridModel" =>
             /\ grid = GridModel_reset(GridModel_fresh(grid), last.args[1])
             /\ GridModel_reset(grid, last.args[1]) = grid

\* a reset of a grid whose speed and rotor angle had moved
C6_Witness ==
    /\ focus = "GridModel" /\ last.op = "reset"
    /\ last.pre.delta # 0 /\ last.pre.omega_pu # ONE
    /\ last.pre.load_profile_func.kind = "step"
    /\ grid.delta = 0 /\ grid.omega_pu = ONE

\* C7: a GridModel.step taken at per-unit speed 1.0 with a mechanical power
\* equal to the demand the active profile returns leaves the per-unit speed
\* at 1.0, the frequency at f_nominal and the rotor angle unchanged.
C7_SwingEquilibrium ==
    (/\ focus = "GridModel" /\ last.op = "step"
     /\ last.pre.omega_pu = ONE
     /\ last.args[2] = grid.current_demand) =>
        /\ grid.omega_pu = ONE
        /\ grid.frequency = grid.f_nominal
        /\ grid.delta = last.pre.delta

\* an equilibrium step under the stepped profile, after its step time
C7_Witness ==
    /\ focus = "GridModel" /\ last.op = "step"
    /\ last.pre.omega_pu = ONE
    /\ grid.load_profile_func.kind = "step"
    /\ grid.current_demand = grid.load_profile_func.final
    /\ last.args[2] = grid.current_demand
    /\ grid.omega_pu = ONE

\* the columns calculate reads whatever the scenario
RequiredColumns ==
    {"time_s"} \cup UNION {Assignments[i].needs :
                             i \in {j \in 1..Len(Assignments) :
                                      Assignments[j].when = "always"}}

\* C8: calculate, given a series that is empty, has fewer than 20 rows or
\* lacks a required column, returns the mapping with every key undefined and
\* does not raise.
C8_DegradedInputAllUndefined ==
    (/\ focus = "MetricsEngine" /\ last.op = "calculate"
     /\ \/ last.df.n = 0
        \/ last.df.n < MIN_ROWS
        \/ ~ (RequiredColumns \subseteq last.df.columns)) =>
        /\ ~ last.out.propagated
        /\ last.out.ret = AllNaN

\* a long enough series without speed_rpm: metrics had been computed when
\* the column was missed
C8_Witness ==
    /\ focus = "MetricsEngine" /\ last.op = "calculate"
    /\ last.df.n >= MIN_ROWS /\ last.fault = 0
    /\ last.df.columns = ALL_COLUMNS \ {"speed_rpm"}
    /\ last.out.path = "except"
    /\ last.out.partial["max_freq_deviation_hz"] # NaN
    /\ last.out.ret = AllNaN

\* C9: when an exception is raised at any point of the computation, the call
\* returns the mapping with every key undefined and the exception does not
\* leave the call.
C9_ExceptionAllUndefined ==
    (/\ focus = "MetricsEngine" /\ last.op = "calculate"
     /\ last.out.path = "except") =>
        /\ ~ last.out.propagated
        /\ last.out.ret = AllNaN

\* an exception raised at the last assignment of a complete series
C9_Witness ==
    /\ focus = "MetricsEngine" /\ last.op = "calculate"
    /\ last.df.n >= MIN_ROWS /\ last.df.columns = ALL_COLUMNS
    /\ last.fault = Len(Assignments)
    /\ last.out.path = "except"
    /\ last.out.partial["time_outside_freq_limit_s"] # NaN
    /\ ~ last.out.propagated
    /\ last.out.ret = AllNaN

\* C10: every mapping calculate returns, on every path, has exactly the 24
\* keys of METRIC_KEYS.
C10_FixedKeySet ==
    (/\ focus = "MetricsEngine" /\ last.op = "calculate"
     /\ ~ last.out.propagated) =>
        /\ DOMAIN last.out.ret = {METRIC_KEYS[i] : i \in 1..Len(METRIC_KEYS)}
        /\ Cardinality(DOMAIN last.out.ret) = 24

\* a successful computation that assigned every key
C10_Witness ==
    /\ focus = "MetricsEngine" /\ last.op = "calculate"
    /\ last.out.path = "computed"
    /\ \A k \in DOMAIN last.out.ret : last.out.ret[k] # NaN

Executing == focus = "ScenarioExecutor"

\* C11: when the controller's step raises in a turn of the loop, env.step
\* is called with the neutral action 0.5 in that turn, the turn's record is
\* yielded, and the episode goes on: it ends only when the loop condition
\* ends it, and the controller was asked in every turn before.
C11_ControllerFailureNeutralAction ==
    (Executing /\ ex.iter.n > 0 /\ ex.iter.ctrl_raised) =>
        /\ ex.iter.action = <<ONE \div 2>>
        /\ ex.env.calls = ex.iter.n
        /\ ex.iter.asked_before = ex.iter.n - 1
        /\ ~ ex.iter.env_raised =>
              /\ Len(ex.results_data) = ex.iter.n + 1
              /\ ex.results_data[ex.iter.n + 1].step = ex.iter.n - 1
              /\ ex.pc # "loop" =>
                    \/ ex.terminated \/ ex.truncated
                    \/ ex.step_count >= ex.max_steps

C11_Witness ==
    /\ Executing /\ ex.pc = "loop"
    /\ ex.iter.n = 2 /\ ex.iter.ctrl_raised /\ ~ ex.iter.env_raised
    /\ ~ ex.terminated /\ ~ ex.truncated

\* C12: env.step is called only after env.reset returned and only while the
\* environment is READY or STEPPING: never after a step returned terminated
\* or truncated, never after env.close.
C12_EnvLifecycle ==
    Executing =>
        /\ ~ ex.env.misuse
        /\ ex.env.calls > 0 => ex.reset_ok
        /\ ex.env.state \in {"TERMINATED", "TRUNCATED"} =>
              (ex.terminated \/ ex.truncated)
        /\ ex.env.state = "CLOSED" => ex.pc \in {"returned", "finished"}

C12_Witness ==
    /\ Executing /\ ex.env.state = "CLOSED" /\ ex.env.calls >= 2
    /\ ex.truncated

\* the step limit C13 names: the scenario's max_steps when it gives one,
\* else the simulation's, else 5000
C13_Limit ==
    IF "max_steps" \in DOMAIN ex.scenario_config
    THEN ex.scenario_config.max_steps
    ELSE Get(Get(ex.core_params, "simulation", <<>>), "max_steps", 5000)

\* C13: an episode calls env.step at most N times, N being the scenario's
\* max_steps whenever the scenario gives one.
C13_StepLimit ==
    (Executing /\ ex.pc # "idle") => ex.env.calls <= C13_Limit

\* C14: the records of an episode are the reset record, of step index -1,
\* followed by one record for each env.step call that returned, in call
\* order and with step indices 0, 1, 2, ...; execute returns exactly these.
C14_RecordsOrdered ==
    Executing =>
        LET rd == ex.results_data
        IN  /\ Len(rd) = IF ex.reset_ok THEN 1 + ex.env.steps ELSE 0
            /\ \A i \in 1..Len(rd) :
                  /\ rd[i].step = i - 2
                  /\ rd[i].time_s = (i - 1) * ((2 * ONE) \div 100)
            /\ ex.pc \in {"returned", "finished"} => ex.results_df = rd

C14_Witness ==
    /\ Executing /\ ex.pc = "returned"
    /\ Len(ex.results_df) = 3 /\ ex.env.state = "CLOSED"

\* C15: an episode whose environment was constructed and reset ends with
\* env.close called exactly once, after the last env.step call.
C15_ClosedExactlyOnce ==
    (Executing /\ ex.reset_ok /\ ex.pc \in {"returned", "finished"}) =>
        /\ ex.env.closes = 1
        /\ ex.env.state = "CLOSED"

\* C16: when constructing or resetting the environment fails, execute
\* returns an empty table and has called neither env.step nor the
\* controller; execute never lets an exception of the episode reach its
\* caller.
C16_ExecuteNeverRaises ==
    Executing =>
        /\ ~ ex.propagated
        /\ (ex.pc \in {"returned", "finished"} /\ ~ ex.reset_ok) =>
              /\ ex.results_df = <<>>
              /\ ex.env.calls = 0
              /\ ex.ctrl_calls = 0

C16_Witness ==
    /\ Executing /\ ex.pc = "returned" /\ ~ ex.reset_ok
    /\ ex.env.state = "UNINITIALIZED"

OUTPUT_KEYS ==
    {"completed_successfully", "termination_reason", "metrics",
     "raw_results_df", "error_message"}

\* C17: run_single_sim_and_extract_detailed_metrics never raises; whatever
\* happened, it returns a record with completed_successfully,
\* termination_reason, metrics, raw_results_df and error_message, and
\* completed_successfully is false whenever an exception occurred.
C17_RunSingleNeverRaises ==
    (Executing /\ ex.pc = "finished") =>
        /\ ~ ex.out.raised
        /\ DOMAIN ex.out.value = OUTPUT_KEYS
        /\ (\/ ex.raised_at # {}
            \/ ex.out.value.error_message \notin
                  {"None", "Simulation returned no valid data."}) =>
              ex.out.value.completed_successfully = FALSE

C17_Witness ==
    /\ Executing /\ ex.pc = "finished"
    /\ "environment" \in ex.raised_at
    /\ Len(ex.results_df) >= 2
    /\ ex.out.value.termination_reason = "Exception during execution"

\* the total unsafe time of the table execute returned, as
\* MetricsEngine.calculate(results_df, scenario_config) computes it
C18_TotalTimeUnsafe ==
    MetricsEngine_calculate(
        pd_DataFrame(ex.results_df), ex.scenario_config,
        Get(Get(ex.core_params, "metrics_config", <<>>), "safety_limits", <<>>),
        0, 7 * ONE).ret["total_time_unsafe_s"]

\* C18: a run with fewer than 2 records is reported as insufficient data;
\* a run with enough records is reported 'Safety Limit Violation' and not
\* completed when its total unsafe time exceeds 1e-6, and 'Completed
\* Nominally' and completed otherwise.
C18_OutcomeClassification ==
    (Executing /\ ex.pc = "finished" /\ "setup" \notin ex.raised_at) =>
        LET out == ex.out.value
        IN  IF Len(ex.results_df) < 2
            THEN out.termination_reason = "Insufficient Data / Early Failure"
            ELSE IF FGT(C18_TotalTimeUnsafe, 0)
            THEN /\ out.completed_successfully = FALSE
                 /\ out.termination_reason = "Safety Limit Violation"
            ELSE /\ out.completed_successfully = TRUE
                 /\ out.termination_reason = "Completed Nominally"

\* the arguments C19 names: a configuration that is no mapping or an empty
\* one, a time step that is no positive number, output bounds with
\* output_min >= output_max
C19_Invalid(config, dt) ==
    \/ ~ isinstance(config, {"dict"})
    \/ DOMAIN config.value = {}
    \/ ~ isinstance(dt, {"float", "int"})
    \/ dt.value <= 0
    \/ LET output_limits == Get(config.value, "output_limits", <<0, ONE>>)
       IN  output_limits[1] >= output_limits[2]

\* C19: constructing a PIDController raises, and yields no controller,
\* whenever the configuration is not a mapping or is empty, the time step
\* is not a positive number, or output_min >= output_max.
C19_InvalidConstructionRaises ==
    (/\ focus = "PIDController" /\ last.op = "construct"
     /\ C19_Invalid(last.args[1], last.args[2])) =>
        last.raised # "none"

\* C20: constructing ReactorModel, TurbineModel or GridModel without one of
\* the physical constants it reads raises; none is replaced by a default.
C20_MissingConstantRaises ==
    (/\ focus \in {"ReactorModel", "TurbineModel", "GridModel"}
     /\ last.op = "construct" /\ last.args[1] # "none") =>
        last.raised # "none"

\* C21: after a reset with a non-negative initial power fraction and any
\* number of steps, every precursor-group concentration is >= 0 and the
\* concentration vector has the length of the delay-group vector.
C21_PrecursorsNonNegative ==
    (focus = "ReactorModel" /\ episode.began /\ episode.args[1] >= 0) =>
        /\ Len(reactor.precursor_concentrations) = Len(reactor.beta_i)
        /\ \A i \in 1..Len(reactor.precursor_concentrations) :
              FGE(reactor.precursor_concentrations[i], 0)

\* one explicit Euler step of the coupled reactor equations: every
\* derivative is evaluated at the state s before the step
C25_ExplicitEuler(s, dt, rod_reactivity) ==
    LET total_reactivity ==
            FAdd(FAdd(FMul(s.alpha_f, FSub(s.T_fuel, s.T_fuel0)),
                      FMul(s.alpha_c, FSub(s.T_moderator, s.T_coolant0))),
                 rod_reactivity)
        dp_dt == FAdd(FMul(FDiv(FSub(total_reactivity, s.beta_total), s.Lambda),
                           s.power_level),
                      np_sum(VecMul(s.lambda_i, s.precursor_concentrations)))
        dc_dt(i) == FSub(FMul(FDiv(s.beta_i[i], s.Lambda), s.power_level),
                         FMul(s.lambda_i[i], s.precursor_concentrations[i]))
        heat == FMul(s.Omega, FSub(s.T_fuel, s.T_moderator))
        dtf_dt == FMul(FDiv(ONE, s.C_f), FSub(FMul(s.power_level, s.P0), heat))
        dtc_dt == FMul(FDiv(ONE, s.C_c), heat)
    IN  [s EXCEPT
           !.power_level = max0(FAdd(s.power_level, FMul(dp_dt, dt))),
           !.precursor_concentrations =
               [i \in 1..Len(s.beta_i) |->
                  FAdd(s.precursor_concentrations[i], FMul(dc_dt(i), dt))],
           !.T_fuel = FAdd(s.T_fuel, FMul(dtf_dt, dt)),
           !.T_moderator = FAdd(s.T_moderator, FMul(dtc_dt, dt))]

\* C25: ReactorModel.step is one explicit Euler step: the state after it is
\* the state the explicit Euler operator gives from the state before it.
C25_StepIsExplicitEuler ==
    (focus = "ReactorModel" /\ last.op = "step") =>
        reactor = C25_ExplicitEuler(last.pre, last.args[1], last.args[2])

\* the nominal initial load a core configuration gives
ConfiguredLoad(core_config) ==
    IF /\ "initial_conditions" \in DOMAIN core_config
       /\ "electrical_load_mw" \in DOMAIN core_config.initial_conditions
    THEN core_config.initial_conditions.electrical_load_mw
    ELSE (30085 * ONE) \div 10

ProfileCalled(name) ==
    focus = "scenario_definitions" /\ last.op = "profile" /\ last.name = name

\* C22: the load profile of 'baseline_steady_state' returns the configured
\* nominal initial load for every time and step index.
C22_BaselineConstantLoad ==
    ProfileCalled("baseline_steady_state") =>
        last.ret = ConfiguredLoad(last.core_config)

C22_Witness ==
    /\ ProfileCalled("baseline_steady_state")
    /\ last.args = <<30 * ONE, 1000>>
    /\ last.ret = 1000 * ONE

\* C23: the load profile of 'sudden_load_increase_5pct' returns the initial
\* load before 20 s and 1.05 x the initial load at and after 20 s, whatever
\* the step index.
C23_SuddenIncreaseProfile ==
    ProfileCalled("sudden_load_increase_5pct") =>
        LET L == ConfiguredLoad(last.core_config)
        IN  /\ last.args[1] < 20 * ONE => last.ret = L
            /\ last.args[1] >= 20 * ONE =>
                  last.ret = (L * ((105 * ONE) \div 100)) \div ONE

C23_Witness ==
    /\ ProfileCalled("sudden_load_increase_5pct")
    /\ last.args = <<20 * ONE, 0>>
    /\ last.ret > ConfiguredLoad(last.core_config)

\* C24: every scenario get_scenarios returns has a reset_options mapping:
\* the one its definition gives, unchanged, or else an empty one; nothing
\* else of the definition is changed.
C24_ResetOptionsPresent ==
    (focus = "scenario_definitions"
     /\ last.op \in {"get_scenarios", "profile"}) =>
        \A name \in DOMAIN last.scenarios :
            LET spec == last.scenarios[name]
                def == Scenario_definitions(
                           last.core_config.simulation.dt,
                           ConfiguredLoad(last.core_config),
                           (98 * ONE) \div 100)[name]
            IN  /\ "reset_options" \in DOMAIN spec
                /\ DOMAIN spec = DOMAIN def \cup {"reset_options"}
                /\ \A k \in DOMAIN def : spec[k] = def[k]
                /\ "reset_options" \notin DOMAIN def =>
                      DOMAIN spec.reset_options = {}

C24_Witness ==
    /\ focus = "scenario_definitions" /\ last.op = "get_scenarios"
    /\ Cardinality(DOMAIN last.scenarios) = 8
    /\ DOMAIN last.scenarios["sudden_load_increase_5pct"].reset_options = {}
    /\ last.scenarios["baseline_steady_state"].reset_options.initial_power_level
          = (9 * ONE) \div 10

\* the load C26 names: that of the last entry in list order whose start
\* time is <= t, or that of the first entry when there is none
C26_Expected(steps, t) ==
    LET reached == {i \in 1..Len(steps) : steps[i][2] <= t}
    IN  IF reached = {} THEN steps[1][1]
        ELSE steps[CHOOSE i \in reached : \A j \in reached : j <= i][1]

C26_Sorted(steps) ==
    \A i, j \in 1..Len(steps) : i < j => steps[i][2] <= steps[j][2]

\* C26 as stated: for every non-empty list of entries and every time t the
\* profile of multi_step_load_profile returns the load of the last entry in
\* list order whose start time is <= t, or the first entry's load when no
\* start time is reached.
C26_MultiStepLastApplicable ==
    (focus = "scenario_definitions" /\ last.op = "multi_step") =>
        last.ret = C26_Expected(last.steps, last.args[1])

\* C26 amended: the same, for lists whose start times are in non-decreasing
\* order.
C26_MultiStepLastApplicableSorted ==
    (focus = "scenario_definitions" /\ last.op = "multi_step"
     /\ C26_Sorted(last.steps)) =>
        last.ret = C26_Expected(last.steps, last.args[1])

C26_Witness ==
    /\ focus = "scenario_definitions" /\ last.op = "multi_step"
    /\ C26_Sorted(last.steps) /\ Len(last.steps) = 3
    /\ last.args[1] = 30 * ONE
    /\ last.ret = 9 * ONE

\* the number of rows of a table that satisfy a test of one column
C27_FuelOver(df, sl) ==
    Cardinality({i \in 1..df.n : df.T_fuel[i] > sl.max_fuel_temp_c})
C27_SpeedOver(df, sl) ==
    Cardinality({i \in 1..df.n : df.speed_rpm[i] > sl.max_speed_rpm})
C27_FreqOutside(df, sl) ==
    Cardinality({i \in 1..df.n :
                    \/ df.grid_frequency_hz[i] < sl.min_frequency_hz
                    \/ df.grid_frequency_hz[i] > sl.max_frequency_hz})

\* C27: for a record series sampled at a fixed positive step dt, each
\* unsafe-time metric is dt times the number of records that violate its
\* limit, total_time_unsafe_s is the sum of the three, and the total is 0
\* exactly when no record violates a configured limit.
C27_UnsafeTimes ==
    (focus = "MetricsEngine" /\ last.op = "calculate"
     /\ last.out.path = "computed") =>
        LET df == last.df
            sl == last.safety_limits
            m == last.out.ret
        IN  /\ m["time_over_fuel_temp_limit_s"] = C27_FuelOver(df, sl) * df.dt
            /\ m["time_over_speed_limit_s"] = C27_SpeedOver(df, sl) * df.dt
            /\ m["time_outside_freq_limit_s"] = C27_FreqOutside(df, sl) * df.dt
            /\ m["total_time_unsafe_s"] =
                  m["time_over_fuel_temp_limit_s"]
                  + m["time_over_speed_limit_s"]
                  + m["time_outside_freq_limit_s"]
            /\ (m["total_time_unsafe_s"] = 0) <=>
                  (C27_FuelOver(df, sl) + C27_SpeedOver(df, sl)
                   + C27_FreqOutside(df, sl) = 0)

\* two rows over the fuel limit, one over the speed limit, two under the
\* frequency band and one above it
C27_Witness ==
    /\ focus = "MetricsEngine" /\ last.op = "calculate"
    /\ last.out.path = "computed"
    /\ C27_FuelOver(last.df, last.safety_limits) = 2
    /\ C27_SpeedOver(last.df, last.safety_limits) = 1
    /\ C27_FreqOutside(last.df, last.safety_limits) = 3
    /\ last.out.ret["total_time_unsafe_s"] = 6 * last.df.dt

\* C28: after update_parameters(m), for m over the keys kp, ki, kd and
\* setpoint, get_parameters() returns m's value for every key of m and the
\* previous value for every other key; update_parameters(get_parameters())
\* leaves the controller unchanged.
C28_ParametersRoundTrip ==
    (focus = "PIDController" /\ last.op = "update_parameters") =>
        LET m == last.args[1]
            before == PIDController_get_parameters(last.pre)
            after == PIDController_get_parameters(pid)
        IN  /\ DOMAIN after = {"kp", "ki", "kd", "setpoint"}
            /\ \A k \in DOMAIN after :
                  after[k] = IF k \in DOMAIN m THEN m[k] ELSE before[k]
            /\ m = before => pid = last.pre

\* C29: TurbineModel.step never changes speed_rpm, which stays at the
\* nominal value for any number of steps; a turbine step changes only
\* valve_position and mechanical_power, and leaves the grid's per-unit speed
\* and frequency as they were.
C29_TurbineSpeedUntouched ==
    focus = "TurbineModel" =>
        /\ turbine.speed_rpm = turbine.omega_nominal_rpm
        /\ last.op = "step" =>
              \A f \in DOMAIN turbine \ {"valve_position", "mechanical_power"} :
                  turbine[f] = last.pre[f]
        /\ grid.omega_pu = ONE /\ grid.frequency = grid.f_nominal

\* a second step after a reset that moved the valve and the power
C29_Witness ==
    /\ focus = "TurbineModel" /\ last.op = "step"
    /\ episode.began /\ episode.steps >= 2
    /\ turbine.valve_position # last.pre.valve_position
    /\ turbine.mechanical_power # last.pre.mechanical_power
    /\ turbine.speed_rpm = turbine.omega_nominal_rpm

\* C30: in a PIDController.step whose clamped output is saturated at
\* output_max while the error is positive, or at output_min while the error
\* is negative, the integral accumulator is not moved further in the
\* direction of the error.
C30_AntiWindup ==
    (focus = "PIDController" /\ last.op = "step" /\ FGT(last.pre.dt, 0)) =>
        LET error == pid._previous_error
        IN  /\ (last.ret = last.pre.output_max /\ FGT(error, 0)) =>
                  FLE(pid._integral, last.pre._integral)
            /\ (last.ret = last.pre.output_min /\ FLT(error, 0)) =>
                  FGE(pid._integral, last.pre._integral)

====
